---- MODULE Spec2Model ----
(***************************************************************************)
(* Intent classification, store resolution and query routing of the        *)
(* analytics agent of the Smart Laundry POS assistant                      *)
(* (ai-agent/src/agents/analytics_agent_v2.py).                            *)
(*                                                                         *)
(* Text is modelled by TLA+ strings, on which TLC evaluates Len, SubSeq    *)
(* and \o character by character.                                          *)
(***************************************************************************)
EXTENDS Integers, Sequences, FiniteSets, TLC

VARIABLES
    store_cache,     \* self._store_cache, in insertion order: <<[key, store]>>
    tools_loaded,    \* self._tools_loaded
    store_id,        \* self._store_id, the instance default store id
    use_llm_fallback,\* self._use_llm_fallback
    db_stores,       \* rows the data store answers to list-stores
    last,            \* the request served last: inputs, outcome, external calls
    probe,           \* last application of a pure function (SpecPure)
    loaders          \* the _load_store_cache coroutines in flight (SpecRace)

vars == <<store_cache, tools_loaded, store_id, use_llm_fallback, db_stores, last, probe, loaders>>

(***************************************************************************)
(* Bounds                                                                  *)
(***************************************************************************)
MaxWords == 2     \* words per generated message
MaxStores == 6    \* rows of the stores table
MaxCustomers == 3 \* rows of the customers table

(***************************************************************************)
(* Python str primitives                                                   *)
(***************************************************************************)
Char(s, i) == SubSeq(s, i, i)

\* str.__contains__: w in q
Contains(q, w) ==
    \E i \in 1..(Len(q) - Len(w) + 1) : SubSeq(q, i, i + Len(w) - 1) = w

\* str.startswith / str.endswith
StartsWith(s, p) == Len(s) >= Len(p) /\ SubSeq(s, 1, Len(p)) = p
EndsWith(s, p) == Len(s) >= Len(p) /\ SubSeq(s, Len(s) - Len(p) + 1, Len(s)) = p

UpperChars == "ABCDEFGHIJKLMNOPQRSTUVWXYZ"
LowerChars == "abcdefghijklmnopqrstuvwxyz"

UpperSet == {Char(UpperChars, k) : k \in 1..26}
LowerMap == [c \in UpperSet |-> Char(LowerChars, CHOOSE k \in 1..26 : Char(UpperChars, k) = c)]

LowerChar(c) == IF c \in UpperSet THEN LowerMap[c] ELSE c

RECURSIVE LowerFrom(_, _)
LowerFrom(s, i) ==
    IF i > Len(s) THEN "" ELSE LowerChar(Char(s, i)) \o LowerFrom(s, i + 1)

\* str.lower
Lower(s) == LowerFrom(s, 1)

IsSpace(c) == c \in {" ", "\n", "\t"}

RECURSIVE LStrip(_)
LStrip(s) ==
    IF Len(s) > 0 /\ IsSpace(Char(s, 1)) THEN LStrip(SubSeq(s, 2, Len(s))) ELSE s

RECURSIVE RStrip(_)
RStrip(s) ==
    IF Len(s) > 0 /\ IsSpace(Char(s, Len(s))) THEN RStrip(SubSeq(s, 1, Len(s) - 1)) ELSE s

\* str.strip
Strip(s) == RStrip(LStrip(s))

\* str.split(): the maximal runs of non-whitespace characters, in order
RECURSIVE SplitFrom(_, _, _)
SplitFrom(s, i, cur) ==
    IF i > Len(s)
    THEN IF cur = "" THEN <<>> ELSE <<cur>>
    ELSE IF IsSpace(Char(s, i))
         THEN (IF cur = "" THEN <<>> ELSE <<cur>>) \o SplitFrom(s, i + 1, "")
         ELSE SplitFrom(s, i + 1, cur \o Char(s, i))

Split(s) == SplitFrom(s, 1, "")

Digits == "0123456789"
DigitSet == {Char(Digits, k) : k \in 1..10}
IsDigit(c) == c \in DigitSet

\* number of consecutive digits of s starting at position i
RECURSIVE DigitRun(_, _)
DigitRun(s, i) ==
    IF i <= Len(s) /\ IsDigit(Char(s, i)) THEN 1 + DigitRun(s, i + 1) ELSE 0

(***************************************************************************)
(* Keyword stage: the category predicates, lines 1168-1253                 *)
(***************************************************************************)
AnyKeyword(query, keywords) == \E kw \in keywords : Contains(query, kw)

is_daily_revenue_query(query) ==
    AnyKeyword(query, {"hari ini", "harian", "today", "daily", "kemarin", "kemaren", "yesterday"})

is_weekly_query(query) ==
    AnyKeyword(query, {"minggu", "mingguan", "weekly", "week", "seminggu"})

is_monthly_query(query) ==
    AnyKeyword(query, {"bulan", "bulanan", "monthly", "month"})

is_comparison_query(query) ==
    AnyKeyword(query, {"banding", "compare", "vs", "dibanding", "perbandingan"})

is_popular_services_query(query) ==
    AnyKeyword(query, {"populer", "terlaris", "top", "favorit", "popular", "best"})

is_peak_hours_query(query) ==
    AnyKeyword(query, {"jam sibuk", "peak", "tersibuk", "ramai", "busy"})

is_churned_customers_query(query) ==
    AnyKeyword(query, {"churn", "hilang", "sekali order", "tidak kembali"})

is_inactive_customers_query(query) ==
    AnyKeyword(query, {"tidak aktif", "inactive", "lama tidak", "dormant"})

is_store_list_query(query) ==
    AnyKeyword(query, {"daftar toko", "list store", "toko apa", "store apa", "cabang",
                       "semua toko", "all stores", "toko tersedia", "available stores",
                       "lihat toko", "tampilkan toko", "show stores", "toko mana",
                       "outlet", "lokasi toko", "store locations"})

StoreDetailKeywords == <<"info toko", "detail toko", "store info", "tentang toko", "alamat toko">>

is_store_detail_query(query) ==
    AnyKeyword(query, {StoreDetailKeywords[k] : k \in 1..Len(StoreDetailKeywords)})

is_points_query(query) ==
    AnyKeyword(query, {"poin", "loyalti", "loyalty", "reward", "point", "points", "hadiah", "bonus"})

is_points_info_query(query) ==
    AnyKeyword(query, {"informasi poin", "info poin", "tentang poin", "apa itu poin",
                       "penjelasan poin", "sistem poin", "points info", "about points"})

is_points_redeem_query(query) ==
    AnyKeyword(query, {"tukar poin", "tuker poin", "redeem", "pakai poin", "gunakan poin",
                       "cara tukar", "cara pakai poin", "cara gunakan poin", "menukar poin",
                       "gimana tukar", "gimana cara tukar", "bagaimana tukar"})

is_points_earn_query(query) ==
    AnyKeyword(query, {"cara dapat poin", "cara mendapat poin", "cara kumpul poin",
                       "gimana dapat poin", "bagaimana dapat poin", "earn points",
                       "dapet poin", "dapat poin", "kumpulkan poin"})

is_points_summary_query(query) ==
    AnyKeyword(query, {"ringkasan poin", "total poin", "statistik poin", "points summary", "semua poin"})

extract_period(query) ==
    IF Contains(query, "bulan") \/ Contains(query, "month") THEN "month" ELSE "week"

\* Python None in a slot that otherwise holds text
None == "<None>"

\* re.search(r'(08\d{8,12})', text): leftmost "08" followed by at least 8
\* digits, extended greedily to at most 12 digits; None without a match
PhoneStarts(text) ==
    {i \in 1..Len(text) : /\ i + 1 <= Len(text)
                          /\ SubSeq(text, i, i + 1) = "08"
                          /\ DigitRun(text, i + 2) >= 8}

search_phone(text) ==
    IF PhoneStarts(text) = {} THEN None
    ELSE LET i == CHOOSE j \in PhoneStarts(text) : \A k \in PhoneStarts(text) : j <= k
             n == IF DigitRun(text, i + 2) > 12 THEN 12 ELSE DigitRun(text, i + 2)
         IN  SubSeq(text, i, i + 1 + n)

\* the chain with the monthly test ahead of the comparison test
keyword_intent_monthly_first(query_lower) ==
    IF is_monthly_query(query_lower) THEN "monthly_revenue"
    ELSE IF is_comparison_query(query_lower) THEN "compare_periods"
    ELSE IF is_store_list_query(query_lower) THEN "store_list"
    ELSE IF is_store_detail_query(query_lower) THEN "store_detail"
    ELSE IF is_daily_revenue_query(query_lower) THEN "daily_revenue"
    ELSE IF is_weekly_query(query_lower) THEN "weekly_revenue"
    ELSE IF is_popular_services_query(query_lower) THEN "popular_services"
    ELSE IF is_peak_hours_query(query_lower) THEN "peak_hours"
    ELSE IF is_churned_customers_query(query_lower) THEN "churned_customers"
    ELSE IF is_inactive_customers_query(query_lower) THEN "inactive_customers"
    ELSE IF is_points_summary_query(query_lower) THEN "points_summary"
    ELSE IF is_points_redeem_query(query_lower) THEN "points_redeem"
    ELSE IF is_points_earn_query(query_lower) THEN "points_earn"
    ELSE IF is_points_info_query(query_lower) THEN "points_info"
    ELSE IF is_points_query(query_lower) THEN "points_check"
    ELSE "general"

\* the intent chosen by the if/elif chain of lines 221-251
keyword_intent(query_lower) ==
    IF is_comparison_query(query_lower) THEN "compare_periods"
    ELSE IF is_store_list_query(query_lower) THEN "store_list"
    ELSE IF is_store_detail_query(query_lower) THEN "store_detail"
    ELSE IF is_daily_revenue_query(query_lower) THEN "daily_revenue"
    ELSE IF is_weekly_query(query_lower) THEN "weekly_revenue"
    ELSE IF is_monthly_query(query_lower) THEN "monthly_revenue"
    ELSE IF is_popular_services_query(query_lower) THEN "popular_services"
    ELSE IF is_peak_hours_query(query_lower) THEN "peak_hours"
    ELSE IF is_churned_customers_query(query_lower) THEN "churned_customers"
    ELSE IF is_inactive_customers_query(query_lower) THEN "inactive_customers"
    ELSE IF is_points_summary_query(query_lower) THEN "points_summary"
    ELSE IF is_points_redeem_query(query_lower) THEN "points_redeem"
    ELSE IF is_points_earn_query(query_lower) THEN "points_earn"
    ELSE IF is_points_info_query(query_lower) THEN "points_info"
    ELSE IF is_points_query(query_lower) THEN "points_check"
    ELSE "general"

classify_intent_with_keywords(query_lower) ==
    [intent       |-> keyword_intent(query_lower),
     store_name   |-> None,
     phone_number |-> search_phone(query_lower),
     period       |-> IF is_comparison_query(query_lower)
                      THEN extract_period(query_lower) ELSE None]

(***************************************************************************)
(* LLM stage, lines 152-196                                                *)
(***************************************************************************)
\* the fixed intent enumeration of INTENT_CLASSIFICATION_PROMPT, lines 34-49
INTENTS ==
    {"daily_revenue", "weekly_revenue", "monthly_revenue", "compare_periods",
     "popular_services", "peak_hours", "churned_customers", "inactive_customers",
     "points_summary", "points_redeem", "points_earn", "points_check",
     "points_info", "store_list", "store_detail", "general"}

GeneralResult ==
    [intent |-> "general", store_name |-> None, phone_number |-> None, period |-> None]

\* text.split('\n', 1)[1]: what follows the first newline
RECURSIVE AfterFirstNewline(_)
AfterFirstNewline(text) ==
    IF Len(text) = 0 THEN ""
    ELSE IF Char(text, 1) = "\n" THEN SubSeq(text, 2, Len(text))
    ELSE AfterFirstNewline(SubSeq(text, 2, Len(text)))

\* The Markdown fence marker (three backquotes); the backquote is not a TLA+
\* string character, so the marker is written with tildes.
Fence == "~~~"

\* lines 171-179: strip the reply and unwrap a Markdown code fence
strip_code_fence(reply) ==
    LET text == Strip(reply) IN
    IF StartsWith(text, Fence)
    THEN LET t1 == IF Contains(text, "\n") THEN AfterFirstNewline(text)
                   ELSE SubSeq(text, 4, Len(text))
             t2 == IF EndsWith(t1, Fence) THEN SubSeq(t1, 1, Len(t1) - 3) ELSE t1
             t3 == Strip(t2)
         IN  IF StartsWith(t3, "json") THEN Strip(SubSeq(t3, 5, Len(t3))) ELSE t3
    ELSE text

\* json.loads on the documents the completion service is taken to answer:
\* kind "object" carries the keys present and their values (null is None),
\* kind "array" and "scalar" are JSON values that are no object; every other
\* text raises JSONDecodeError.
JsonObject(keys, i, sn, ph, pe) ==
    [kind |-> "object", keys |-> keys, intent |-> i,
     store_name |-> sn, phone_number |-> ph, period |-> pe]

JsonOther(kind) ==
    [kind |-> kind, keys |-> {}, intent |-> None,
     store_name |-> None, phone_number |-> None, period |-> None]

AllKeys == {"intent", "store_name", "phone_number", "period"}

json_loads(text) ==
    CASE text = "{\"intent\": \"weekly_revenue\", \"store_name\": null, \"phone_number\": null, \"period\": \"week\"}"
           -> JsonObject(AllKeys, "weekly_revenue", None, None, "week")
      [] text = "{\"intent\": \"points_check\", \"phone_number\": \"081234567890\"}"
           -> JsonObject({"intent", "phone_number"}, "points_check", None, "081234567890", None)
      [] text = "{\"intent\": \"store_list\"}"
           -> JsonObject({"intent"}, "store_list", None, None, None)
      [] text = "{\"intent\": \"general\", \"store_name\": \"sudirman\"}"
           -> JsonObject({"intent", "store_name"}, "general", "sudirman", None, None)
      [] text = "{\"intent\": \"revenue_report\"}"
           -> JsonObject({"intent"}, "revenue_report", None, None, None)
      [] text = "{\"intent\": null}"
           -> JsonObject({"intent"}, None, None, None, None)
      [] text = "{}"
           -> JsonObject({}, None, None, None, None)
      [] text = "[\"daily_revenue\"]"
           -> JsonOther("array")
      [] text = "42"
           -> JsonOther("scalar")
      [] OTHER
           -> JsonOther("JSONDecodeError")

\* dict.get(key, default) on a parsed object
DictGet(obj, key, value, default) == IF key \in obj.keys THEN value ELSE default

\* A behaviour of the completion capability for one call:
\*   configured - gemini_client is not None (lines 113-123)
\*   raises     - generate_content_async raises
\*   text       - response.text ("" is the empty reply)
LLM(configured, raises, text) == [configured |-> configured, raises |-> raises, text |-> text]

NoLLM == LLM(FALSE, FALSE, "")

classify_intent_with_llm(query, llm) ==
    IF ~llm.configured THEN GeneralResult
    ELSE IF llm.raises THEN GeneralResult
    ELSE IF llm.text = "" THEN GeneralResult
    ELSE LET result == json_loads(strip_code_fence(llm.text)) IN
         IF result.kind = "JSONDecodeError" THEN GeneralResult
         ELSE IF result.kind # "object" THEN GeneralResult   \* .get raises AttributeError
         ELSE [intent       |-> DictGet(result, "intent", result.intent, "general"),
               store_name   |-> DictGet(result, "store_name", result.store_name, None),
               phone_number |-> DictGet(result, "phone_number", result.phone_number, None),
               period       |-> DictGet(result, "period", result.period, None)]

\* the two stages with the LLM consulted whatever the keyword stage found
classify_stages_llm_first(query, use_llm, llm) ==
    LET classification == classify_intent_with_keywords(Lower(query))
        llm_classification == classify_intent_with_llm(query, llm)
    IN  [classification |-> IF use_llm /\ llm_classification.intent # "general"
                            THEN llm_classification ELSE classification,
         llm_called     |-> use_llm /\ llm.configured]

\* process_query lines 435-447: keywords first, the LLM as fallback
classify_stages(query, use_llm, llm) ==
    LET classification == classify_intent_with_keywords(Lower(query))
        consult == classification.intent = "general" /\ use_llm
        llm_classification == classify_intent_with_llm(query, llm)
    IN  [classification |-> IF consult /\ llm_classification.intent # "general"
                            THEN llm_classification ELSE classification,
         llm_called     |-> consult /\ llm.configured]

(***************************************************************************)
(* UUID values and their normalization, lines 296-335                      *)
(***************************************************************************)
\* A value handed to _format_uuid: a str, a bytes object, a list of byte
\* values, or None.  s holds the text of a str, b the bytes of the others.
StrV(s) == [t |-> "str", s |-> s, b |-> <<>>]
BytesV(b) == [t |-> "bytes", s |-> "", b |-> b]
ListV(b) == [t |-> "list", s |-> "", b |-> b]
NoneV == [t |-> "none", s |-> "", b |-> <<>>]

\* Python truthiness of such a value
Truthy(v) == v.t # "none" /\ (IF v.t = "str" THEN v.s # "" ELSE v.b # <<>>)

\* Python slice s[a:b] with 0-based a, exclusive b, clipped to the string
Slice(s, a, b) ==
    LET hi == IF b > Len(s) THEN Len(s) ELSE b
    IN  IF a >= hi THEN "" ELSE SubSeq(s, a + 1, hi)

\* str.count of a one-character string
RECURSIVE Count(_, _)
Count(s, c) ==
    IF Len(s) = 0 THEN 0
    ELSE (IF Char(s, 1) = c THEN 1 ELSE 0) + Count(SubSeq(s, 2, Len(s)), c)

HexDigits == "0123456789abcdef"

\* the byte printed without its leading zero, f'{b:x}'
Hex2_unpadded(b) ==
    IF b < 16 THEN Char(HexDigits, b + 1)
    ELSE Char(HexDigits, (b \div 16) + 1) \o Char(HexDigits, (b % 16) + 1)

\* f'{b:02x}' for a byte value
Hex2(b) == Char(HexDigits, (b \div 16) + 1) \o Char(HexDigits, (b % 16) + 1)

\* bytes.hex() / ''.join(f'{b:02x}' for b in value)
RECURSIVE HexOf(_)
HexOf(bs) == IF bs = <<>> THEN "" ELSE Hex2(Head(bs)) \o HexOf(Tail(bs))

\* f"{h[:8]}-{h[8:12]}-{h[12:16]}-{h[16:20]}-{h[20:]}"
Dashed(h) ==
    Slice(h, 0, 8) \o "-" \o Slice(h, 8, 12) \o "-" \o Slice(h, 12, 16) \o "-"
        \o Slice(h, 16, 20) \o "-" \o Slice(h, 20, Len(h))

\* decimal numeral of a natural number, and str() of a list of them
RECURSIVE Decimal(_)
Decimal(n) == IF n < 10 THEN Char(Digits, n + 1) ELSE Decimal(n \div 10) \o Char(Digits, (n % 10) + 1)

RECURSIVE JoinDecimal(_)
JoinDecimal(bs) ==
    IF bs = <<>> THEN ""
    ELSE IF Len(bs) = 1 THEN Decimal(Head(bs))
    ELSE Decimal(Head(bs)) \o ", " \o JoinDecimal(Tail(bs))

\* every string takes the undashed branch: no early return for 36 characters
format_uuid_no_uuid_check(uuid_value) ==
    IF ~Truthy(uuid_value) THEN ""
    ELSE IF uuid_value.t = "str"
    THEN IF Len(uuid_value.s) \in {32, 36} THEN Dashed(uuid_value.s)
         ELSE uuid_value.s
    ELSE IF uuid_value.t = "bytes" THEN Dashed(HexOf(uuid_value.b))
    ELSE IF uuid_value.t = "list" /\ Len(uuid_value.b) = 16 THEN Dashed(HexOf(uuid_value.b))
    ELSE "[" \o JoinDecimal(uuid_value.b) \o "]"

format_uuid(uuid_value) ==
    IF ~Truthy(uuid_value) THEN ""
    ELSE IF uuid_value.t = "str"
    THEN IF Len(uuid_value.s) = 36 /\ Count(uuid_value.s, "-") = 4 THEN uuid_value.s
         ELSE IF Len(uuid_value.s) = 32 THEN Dashed(uuid_value.s)
         ELSE uuid_value.s
    ELSE IF uuid_value.t = "bytes" THEN Dashed(HexOf(uuid_value.b))
    ELSE IF uuid_value.t = "list" /\ Len(uuid_value.b) = 16 THEN Dashed(HexOf(uuid_value.b))
    ELSE "[" \o JoinDecimal(uuid_value.b) \o "]"

(***************************************************************************)
(* Store match scoring, lines 372-407                                      *)
(***************************************************************************)
common_words == {"laundry", "toko", "ruang", "outlet", "cabang", "store"}

RECURSIVE WordScore(_, _)
WordScore(store_words, query) ==
    IF store_words = <<>> THEN 0
    ELSE LET word == Head(store_words) IN
         (IF Contains(query, word)
          THEN 1 + (IF word \notin common_words THEN 2 ELSE 0)
          ELSE 0) + WordScore(Tail(store_words), query)

\* the score with nothing earned by a common word
calculate_store_match_score_unique_only(store_name, query) ==
    LET store_words == SelectSeq(Split(store_name),
                                 LAMBDA w : Len(w) > 1 /\ w \notin common_words)
    IN  WordScore(store_words, query)
          + (IF Contains(query, store_name) THEN 5 ELSE 0)

calculate_store_match_score(store_name, query) ==
    LET store_words == SelectSeq(Split(store_name), LAMBDA w : Len(w) > 1)
    IN  WordScore(store_words, query)
          + (IF Contains(query, store_name) THEN 5 ELSE 0)

(***************************************************************************)
(* The store cache: a dict in insertion order, lines 131-150               *)
(***************************************************************************)
Store(name, id) == [name |-> name, id |-> id]

CacheKeys(cache) == {cache[i].key : i \in 1..Len(cache)}

\* the assignment with the cache kept as a list of rows instead of a dict
CachePut_appending(cache, key, store) == Append(cache, [key |-> key, store |-> store])

\* self._store_cache[key] = store
CachePut(cache, key, store) ==
    IF key \in CacheKeys(cache)
    THEN [i \in 1..Len(cache) |->
            IF cache[i].key = key THEN [key |-> key, store |-> store] ELSE cache[i]]
    ELSE Append(cache, [key |-> key, store |-> store])

\* the loop of lines 137-142: every id is normalized before it is cached
RECURSIVE CacheNormalized(_, _)
CacheNormalized(cache, stores) ==
    IF stores = <<>> THEN cache
    ELSE LET store == Head(stores) IN
         CacheNormalized(
             CachePut(cache, Lower(store.name),
                      Store(store.name, StrV(format_uuid(store.id)))),
             Tail(stores))

\* the loop of lines 1294-1296: rows are cached as the data store sent them
RECURSIVE CacheRaw(_, _)
CacheRaw(cache, stores) ==
    IF stores = <<>> THEN cache
    ELSE CacheRaw(CachePut(cache, Lower(Head(stores).name), Head(stores)), Tail(stores))

\* the scan of lines 355-363 from position i on: the first entry of strictly
\* greatest score, as <<position, score>> (position 0 when no score is > 0)
RECURSIVE BestMatch(_, _, _, _)
BestMatch(cache, query_lower, i, best) ==
    IF i > Len(cache) THEN best
    ELSE LET score == calculate_store_match_score(cache[i].key, query_lower) IN
         BestMatch(cache, query_lower, i + 1,
                   IF score > best[2] THEN <<i, score>> ELSE best)

\* the resolution with a match accepted from score 1 on
resolve_in_cache_threshold_one(cache, query, default_id) ==
    LET best == BestMatch(cache, Lower(query), 1, <<0, 0>>) IN
    IF best[1] # 0 /\ best[2] >= 1
    THEN LET id == cache[best[1]].store.id IN
         IF Truthy(id) THEN format_uuid(id) ELSE ""
    ELSE IF default_id # "" THEN format_uuid(StrV(default_id)) ELSE ""

\* lines 352-370, on the cache as _load_store_cache left it
resolve_in_cache(cache, query, default_id) ==
    LET best == BestMatch(cache, Lower(query), 1, <<0, 0>>) IN
    IF best[1] # 0 /\ best[2] >= 2
    THEN LET id == cache[best[1]].store.id IN
         IF Truthy(id) THEN format_uuid(id) ELSE ""
    ELSE IF default_id # "" THEN format_uuid(StrV(default_id)) ELSE ""

(***************************************************************************)
(* External calls and handler outcomes                                     *)
(***************************************************************************)
\* What the collaborators do during one request:
\*   fail  - the tools whose invocation raises
\*   empty - whether report queries answer no rows
\*   llm   - the behaviour of the completion capability
Env(fail, empty, llm) == [fail |-> fail, empty |-> empty, llm |-> llm]

\* The agent's mutable fields threaded through one request, with the log of
\* the external calls the request has made.
Machine(cache, loaded) == [cache |-> cache, loaded |-> loaded, calls |-> <<>>]

\* one tool invocation through LaundryToolboxClient; store_id is the filter
\* argument, None for a tool that takes none
Call(m, env, tool, sid) ==
    [m EXCEPT !.calls = Append(@, [tool |-> tool, store_id |-> sid, ok |-> tool \notin env.fail,
                                   empty |-> env.empty])]

\* the calls of a try block in order, up to and including the first that raises
RECURSIVE TryCalls(_, _, _)
\* a failed call issued a second time before giving up
RECURSIVE TryCalls_retrying(_, _, _)
TryCalls_retrying(m, env, calls) ==
    IF calls = <<>> THEN [m |-> m, failed |-> FALSE]
    ELSE LET m1 == Call(m, env, Head(calls)[1], Head(calls)[2]) IN
         IF Head(calls)[1] \in env.fail
         THEN [m |-> Call(m1, env, Head(calls)[1], Head(calls)[2]), failed |-> TRUE]
         ELSE TryCalls_retrying(m1, env, Tail(calls))

TryCalls(m, env, calls) ==
    IF calls = <<>> THEN [m |-> m, failed |-> FALSE]
    ELSE LET m1 == Call(m, env, Head(calls)[1], Head(calls)[2]) IN
         IF Head(calls)[1] \in env.fail THEN [m |-> m1, failed |-> TRUE]
         ELSE TryCalls(m1, env, Tail(calls))

ThreeKeys == {"success", "response", "data"}
ErrorKeys == {"success", "response", "error"}

Returned(m, success, response, keys) ==
    [m |-> m,
     res |-> [raised |-> FALSE, success |-> success, response |-> response,
              keys |-> keys, listed |-> <<>>, more |-> 0]]

\* a success object without its data field
Ok_without_data(m, response) == Returned(m, TRUE, response, {"success", "response"})

Ok(m, response) == Returned(m, TRUE, response, ThreeKeys)

\* the except branch of a handler: {"success": False, "response", "error"}
Failure(m, response) == Returned(m, FALSE, response, ErrorKeys)

\* an exception leaving the function
Raised(m) ==
    [m |-> m,
     res |-> [raised |-> TRUE, success |-> FALSE, response |-> "",
              keys |-> {}, listed |-> <<>>, more |-> 0]]

\* lines 125-129
ensure_tools_loaded(m, env) ==
    IF m.loaded THEN [m |-> m, raised |-> FALSE]
    ELSE LET m1 == Call(m, env, "load-toolset", None) IN
         IF "load-toolset" \in env.fail THEN [m |-> m1, raised |-> TRUE]
         ELSE [m |-> [m1 EXCEPT !.loaded = TRUE], raised |-> FALSE]

\* the load with the store list fetched whether or not the cache is empty
load_store_cache_always_fetch(m, env, stores) ==
    LET m1 == Call(m, env, "list-stores", None) IN
    IF "list-stores" \in env.fail THEN m1
    ELSE [m1 EXCEPT !.cache = CacheNormalized(m.cache, stores)]

\* the load with the rows of an earlier answer cached when the fetch fails
load_store_cache_stale_on_failure(m, env, stores) ==
    IF m.cache # <<>> THEN m
    ELSE [Call(m, env, "list-stores", None) EXCEPT !.cache = CacheNormalized(<<>>, stores)]

\* lines 131-146
load_store_cache(m, env, stores) ==
    IF m.cache # <<>> THEN m
    ELSE LET m1 == Call(m, env, "list-stores", None) IN
         IF "list-stores" \in env.fail THEN m1
         ELSE [m1 EXCEPT !.cache = CacheNormalized(<<>>, stores)]

\* list(self._store_cache.keys())[:5]
FirstKeys(cache, n) ==
    [i \in 1..(IF Len(cache) < n THEN Len(cache) ELSE n) |-> cache[i].key]

\* lines 255-286 (and the inline copy of lines 980-1001)
ask_for_store_context(m, env, stores, report_type) ==
    LET m1 == load_store_cache(m, env, stores) IN
    [m |-> m1,
     res |-> [raised |-> FALSE, success |-> TRUE,
              response |-> "Mohon sebutkan nama toko untuk melihat " \o report_type \o ".",
              keys |-> ThreeKeys,
              listed |-> FirstKeys(m1.cache, 5),
              more |-> IF Len(m1.cache) > 5 THEN Len(m1.cache) - 5 ELSE 0]]

\* lines 288-294
get_store_name_by_id(m, env, stores, sid) ==
    LET m1 == load_store_cache(m, env, stores)
        hits == {i \in 1..Len(m1.cache) : m1.cache[i].store.id = StrV(sid)}
    IN  [m |-> m1,
         name |-> IF hits # {}
                  THEN m1.cache[CHOOSE i \in hits : \A j \in hits : i <= j].store.name
                  ELSE IF sid # "" THEN Slice(sid, 0, 8) ELSE "Unknown"]

\* the format spec ",": a decimal numeral with a comma before every group
\* of three digits
RECURSIVE GroupDigits(_)
GroupDigits(digits) ==
    IF Len(digits) <= 3 THEN digits
    ELSE GroupDigits(SubSeq(digits, 1, Len(digits) - 3)) \o ","
           \o SubSeq(digits, Len(digits) - 2, Len(digits))

Grouped(n) == GroupDigits(Decimal(n))

\* config.format_currency for the default currency IDR: f"Rp {amount:,.0f}"
format_currency(amount) == "Rp " \o Grouped(amount)

\* the row the revenue tools answer for a store and a period
RevenueRow ==
    [total_orders |-> 42, paid_revenue |-> 1000000, unpaid_revenue |-> 250000,
     total_revenue |-> 1250000, average_order_value |-> 29762]

\* the lines of a revenue report below its heading
revenue_lines(revenue) ==
    "*\nTotal: " \o format_currency(revenue.total_revenue)
        \o " (" \o Decimal(revenue.total_orders) \o " order)"
        \o "\n- Lunas: " \o format_currency(revenue.paid_revenue)

\* store_id if store_id is not None else self._store_id
Effective(sid, default_id) == IF sid # None THEN sid ELSE default_id

\* A report handler of lines 518-766: tools loaded, the store context asked
\* for when there is none, the queries of the try block, the empty answer,
\* the rendered report (with the store's name when with_name).
store_report(m, env, stores, default_id, sid, report_type, tools, failure, nothing, title, with_name, detail) ==
    LET e == ensure_tools_loaded(m, env)
        effective_store_id == Effective(sid, default_id)
    IN
    IF e.raised THEN Raised(e.m)
    ELSE IF effective_store_id = ""
    THEN ask_for_store_context(e.m, env, stores, report_type)
    ELSE LET t == TryCalls(e.m, env, [k \in 1..Len(tools) |-> <<tools[k], effective_store_id>>]) IN
         IF t.failed THEN Failure(t.m, failure)
         ELSE IF env.empty THEN Ok(t.m, nothing)
         ELSE IF with_name
         THEN LET n == get_store_name_by_id(t.m, env, stores, effective_store_id) IN
              Ok(n.m, title \o " - " \o n.name \o detail)
         ELSE Ok(t.m, title \o detail)

get_daily_report(m, env, stores, default_id, sid) ==
    store_report(m, env, stores, default_id, sid, "laporan harian",
                 <<"get-daily-revenue", "get-order-status-summary">>,
                 "Gagal mengambil laporan harian.",
                 "Belum ada data transaksi untuk tanggal ini.",
                 "*Laporan Harian", TRUE,
                 revenue_lines(RevenueRow) \o "\n- Belum: " \o format_currency(RevenueRow.unpaid_revenue))

get_weekly_report(m, env, stores, default_id, sid) ==
    store_report(m, env, stores, default_id, sid, "laporan mingguan",
                 <<"get-weekly-revenue">>,
                 "Gagal mengambil laporan mingguan.",
                 "Belum ada data transaksi minggu ini.",
                 "*Laporan Minggu Ini", TRUE,
                 revenue_lines(RevenueRow) \o "\n- Rata-rata: "
                     \o format_currency(RevenueRow.average_order_value) \o "/order")

get_monthly_report(m, env, stores, default_id, sid) ==
    store_report(m, env, stores, default_id, sid, "laporan bulanan",
                 <<"get-monthly-revenue", "get-popular-services">>,
                 "Gagal mengambil laporan bulanan.",
                 "Belum ada data transaksi bulan ini.",
                 "Bulan ini", FALSE, "")

compare_periods(m, env, stores, default_id, sid) ==
    store_report(m, env, stores, default_id, sid, "perbandingan pendapatan",
                 <<"compare-revenue-periods">>,
                 "Gagal membandingkan periode.",
                 "Data tidak cukup untuk perbandingan.",
                 "Perbandingan Pendapatan", TRUE, "")

\* A handler of lines 768-919 and 921-967: tools loaded, one query in a try
\* block, no question about the store.
plain_report(m, env, tool, sid, failure, nothing, title) ==
    LET e == ensure_tools_loaded(m, env) IN
    IF e.raised THEN Raised(e.m)
    ELSE LET t == TryCalls(e.m, env, <<<<tool, sid>>>>) IN
         IF t.failed THEN Failure(t.m, failure)
         ELSE IF env.empty THEN Ok(t.m, nothing)
         ELSE Ok(t.m, title)

get_top_services(m, env, default_id, sid) ==
    plain_report(m, env, "get-popular-services", Effective(sid, default_id),
                 "Gagal mengambil data layanan populer.", "Belum ada data layanan.",
                 "Top layanan")

get_peak_hours(m, env, default_id, sid) ==
    plain_report(m, env, "get-peak-hours", Effective(sid, default_id),
                 "Gagal menganalisis jam sibuk.", "Belum ada data jam operasional.",
                 "Jam tersibuk")

get_churned_customers(m, env) ==
    plain_report(m, env, "get-churned-customers", None,
                 "Gagal menganalisis pelanggan churn.", "Tidak ada pelanggan churn",
                 "pelanggan churn")

get_inactive_customers(m, env) ==
    plain_report(m, env, "get-inactive-customers", None,
                 "Gagal menganalisis pelanggan tidak aktif.", "Semua pelanggan aktif",
                 "pelanggan tidak aktif")

\* rows of the customers table with their loyalty points, by phone number;
\* a row may come without lifetime_points
PointsRows ==
    <<[phone |-> "081234567890", name |-> "Budi", points |-> 150, lifetime_points |-> 500],
      [phone |-> "085700001111", name |-> "Sari", points |-> 0, lifetime_points |-> 2000],
      [phone |-> "081298765432", name |-> "Andi", points |-> 1500, lifetime_points |-> 1500],
      [phone |-> "089912345678", name |-> "Wati", points |-> 20]>>

\* the rows the get-customer-points tool answers for a phone number
customer_by_phone(phone) == SelectSeq(PointsRows, LAMBDA row : row.phone = phone)

\* the response with the lifetime total shown as the redeemed amount
points_response_lifetime_as_redeemed(customer) ==
    LET current_points == customer.points
        lifetime_points == IF "lifetime_points" \in DOMAIN customer
                           THEN customer.lifetime_points ELSE current_points
    IN  "*Poin Loyalitas - " \o customer.name \o "*\n"
          \o "\nPoin tersedia: *" \o Grouped(current_points) \o " poin*"
          \o (IF lifetime_points > current_points
               THEN "\nTotal poin diperoleh: " \o Grouped(lifetime_points) \o " poin"
                      \o "\nPoin sudah ditukar: " \o Grouped(lifetime_points) \o " poin"
               ELSE "")
          \o "\n\n*Cara mendapat poin:*"
          \o "\n- 1 poin per KG (layanan kiloan)"
          \o "\n- 1 poin per item (layanan satuan)"

\* lines 943-958: the lines of the response joined by newlines
points_response(customer) ==
    LET current_points == customer.points
        lifetime_points == IF "lifetime_points" \in DOMAIN customer
                           THEN customer.lifetime_points ELSE current_points
    IN  "*Poin Loyalitas - " \o customer.name \o "*\n"
          \o "\nPoin tersedia: *" \o Grouped(current_points) \o " poin*"
          \o (IF lifetime_points > current_points
               THEN "\nTotal poin diperoleh: " \o Grouped(lifetime_points) \o " poin"
                      \o "\nPoin sudah ditukar: " \o Grouped(lifetime_points - current_points) \o " poin"
               ELSE "")
          \o "\n\n*Cara mendapat poin:*"
          \o "\n- 1 poin per KG (layanan kiloan)"
          \o "\n- 1 poin per item (layanan satuan)"

\* lines 921-967
get_customer_points(m, env, phone) ==
    LET e == ensure_tools_loaded(m, env) IN
    IF e.raised THEN Raised(e.m)
    ELSE LET t == TryCalls(e.m, env, <<<<"get-customer-points", None>>>>)
             result == customer_by_phone(phone)
         IN  IF t.failed THEN Failure(t.m, "Gagal mengambil data poin.")
             ELSE IF result = <<>>
             THEN Ok(t.m, "Nomor tidak ditemukan dalam sistem. Pastikan nomor HP benar atau pelanggan sudah terdaftar.")
             ELSE Ok(t.m, points_response(result[1]))

\* lines 969-1037; the store id falls back to the default when it is falsy
get_points_summary(m, env, stores, default_id, sid) ==
    store_report(m, env, stores, default_id,
                 IF sid # None /\ sid # "" THEN sid ELSE None,
                 "ringkasan poin",
                 <<"get-points-summary-by-store">>,
                 "Gagal mengambil ringkasan poin.",
                 "Belum ada data poin untuk toko ini.",
                 "Ringkasan Poin Loyalitas", TRUE, "")

\* lines 1269-1323
list_stores(m, env, stores) ==
    LET e == ensure_tools_loaded(m, env) IN
    IF e.raised THEN Raised(e.m)
    ELSE LET m1 == Call(e.m, env, "list-stores", None) IN
         IF "list-stores" \in env.fail
         THEN Failure(m1, "Gagal mengambil daftar toko dari database.")
         ELSE IF stores = <<>> THEN Ok(m1, "Tidak ada toko terdaftar dalam sistem.")
         ELSE Ok([m1 EXCEPT !.cache = CacheRaw(m1.cache, stores)], "Daftar Toko")

\* lines 1325-1361
get_store_by_name(m, env, stores, name) ==
    LET m1 == load_store_cache(m, env, stores)
        name_lower == Lower(name)
        partial == {i \in 1..Len(m1.cache) : Contains(m1.cache[i].key, name_lower)}
    IN  IF name_lower \in CacheKeys(m1.cache)
        THEN Ok(m1, (CHOOSE c \in {m1.cache[i] : i \in 1..Len(m1.cache)} : c.key = name_lower).store.name)
        ELSE IF partial # {}
        THEN Ok(m1, m1.cache[CHOOSE i \in partial : \A j \in partial : i <= j].store.name)
        ELSE Returned(m1, FALSE, "Toko '" \o name \o "' tidak ditemukan. Gunakan 'daftar toko' untuk melihat toko yang tersedia.", ThreeKeys)

\* lines 1039-1086
handle_complex_query(m, env, query) ==
    IF ~env.llm.configured
    THEN Returned(m, FALSE, "Maaf, pertanyaan ini membutuhkan analisis AI yang tidak tersedia saat ini.", ThreeKeys)
    ELSE LET t == TryCalls(m, env, <<<<"get-daily-revenue", "">>, <<"get-weekly-revenue", "">>,
                                     <<"get-popular-services", "">>>>)
         IN  IF t.failed THEN Failure(t.m, "Gagal memproses pertanyaan analitik.")
             ELSE LET m1 == [t.m EXCEPT !.calls = Append(@, [tool |-> "llm-generate", store_id |-> None,
                                                            ok |-> ~env.llm.raises, empty |-> FALSE])]
                  IN  IF env.llm.raises THEN Failure(m1, "Gagal memproses pertanyaan analitik.")
                      ELSE Returned(m1, TRUE, env.llm.text, {"success", "response", "ai_generated", "data"})

\* lines 1088-1165
get_points_knowledge(m, context) ==
    Ok(m, CASE context = "redeem" -> "Cara Menukar Poin"
            [] context = "earn" -> "Cara Mendapat Poin"
            [] context = "check" -> "Cara Cek Poin"
            [] OTHER -> "Sistem Poin Loyalitas Smart Laundry")

\* the resolution with the query text tried before the explicit id
resolve_store_id_query_first(m, env, stores, default_id, query, provided_store_id) ==
    LET m1 == load_store_cache(m, env, stores)
        found == resolve_in_cache(m1.cache, query, "")
    IN  IF found # "" THEN [m |-> m1, id |-> found]
        ELSE IF provided_store_id # ""
        THEN [m |-> m1, id |-> format_uuid(StrV(provided_store_id))]
        ELSE [m |-> m1, id |-> resolve_in_cache(m1.cache, query, default_id)]

\* lines 337-370
resolve_store_id(m, env, stores, default_id, query, provided_store_id) ==
    IF provided_store_id # ""
    THEN [m |-> m, id |-> format_uuid(StrV(provided_store_id))]
    ELSE LET m1 == load_store_cache(m, env, stores) IN
         [m |-> m1, id |-> resolve_in_cache(m1.cache, query, default_id)]

(***************************************************************************)
(* process_query, lines 409-516                                            *)
(***************************************************************************)
\* str.replace(w, ''): every occurrence of w removed, scanning left to right
RECURSIVE RemoveAll(_, _)
RemoveAll(s, w) ==
    IF Len(s) < Len(w) THEN s
    ELSE IF StartsWith(s, w) THEN RemoveAll(SubSeq(s, Len(w) + 1, Len(s)), w)
    ELSE Char(s, 1) \o RemoveAll(SubSeq(s, 2, Len(s)), w)

\* lines 461-463: the store-detail phrases removed one after the other
RECURSIVE CleanStoreName(_, _)
CleanStoreName(cleaned, k) ==
    IF k > Len(StoreDetailKeywords) THEN cleaned
    ELSE CleanStoreName(Strip(RemoveAll(cleaned, StoreDetailKeywords[k])), k + 1)

\* lines 455-516: the handler of the intent
dispatch(m, env, stores, query, intent, phone_number, effective_store_id) ==
    CASE intent = "store_list" -> list_stores(m, env, stores)
      [] intent = "store_detail" ->
            LET cleaned == CleanStoreName(Lower(query), 1) IN
            IF cleaned # "" THEN get_store_by_name(m, env, stores, cleaned)
            ELSE list_stores(m, env, stores)
      [] intent = "compare_periods" -> compare_periods(m, env, stores, "", effective_store_id)
      [] intent = "daily_revenue" -> get_daily_report(m, env, stores, "", effective_store_id)
      [] intent = "weekly_revenue" -> get_weekly_report(m, env, stores, "", effective_store_id)
      [] intent = "monthly_revenue" -> get_monthly_report(m, env, stores, "", effective_store_id)
      [] intent = "popular_services" -> get_top_services(m, env, "", effective_store_id)
      [] intent = "peak_hours" -> get_peak_hours(m, env, "", effective_store_id)
      [] intent = "churned_customers" -> get_churned_customers(m, env)
      [] intent = "inactive_customers" -> get_inactive_customers(m, env)
      [] intent = "points_summary" -> get_points_summary(m, env, stores, "", effective_store_id)
      [] intent = "points_redeem" -> get_points_knowledge(m, "redeem")
      [] intent = "points_earn" -> get_points_knowledge(m, "earn")
      [] intent = "points_info" -> get_points_knowledge(m, "general")
      [] intent = "points_check" ->
            LET phone == IF phone_number # None /\ phone_number # ""
                         THEN phone_number ELSE search_phone(query)
            IN  IF phone # None THEN get_customer_points(m, env, phone)
                ELSE get_points_knowledge(m, "check")
      [] OTHER -> handle_complex_query(m, env, query)

\* the request with the tools loaded ahead of the test for an empty message
process_query_load_first(m, env, stores, default_id, use_llm, query, sid) ==
    LET e == ensure_tools_loaded(m, env) IN
    IF e.raised THEN [out |-> Raised(e.m), intent |-> None, store |-> ""]
    ELSE IF query = "" \/ Strip(query) = ""
    THEN [out |-> Returned(e.m, FALSE, "Mohon berikan pertanyaan.", ThreeKeys),
          intent |-> None, store |-> ""]
    ELSE LET c == classify_stages(query, use_llm, env.llm)
             r == resolve_store_id(e.m, env, stores, default_id, query,
                                   IF sid # None THEN sid ELSE "")
         IN  [out |-> dispatch(r.m, env, stores, query, c.classification.intent,
                               c.classification.phone_number, r.id),
              intent |-> c.classification.intent,
              store |-> r.id]

process_query(m, env, stores, default_id, use_llm, query, sid) ==
    IF query = "" \/ Strip(query) = ""
    THEN [out |-> Returned(m, FALSE, "Mohon berikan pertanyaan.", ThreeKeys),
          intent |-> None, store |-> ""]
    ELSE LET e == ensure_tools_loaded(m, env) IN
         IF e.raised THEN [out |-> Raised(e.m), intent |-> None, store |-> ""]
         ELSE LET c == classify_stages(query, use_llm, env.llm)
                  m1 == IF c.llm_called
                        THEN [e.m EXCEPT !.calls = Append(@, [tool |-> "llm-classify", store_id |-> None,
                                                             ok |-> ~env.llm.raises, empty |-> FALSE])]
                        ELSE e.m
                  r == resolve_store_id(m1, env, stores, default_id, query,
                                        IF sid # None THEN sid ELSE "")
              IN  [out |-> dispatch(r.m, env, stores, query, c.classification.intent,
                                    c.classification.phone_number, r.id),
                   intent |-> c.classification.intent,
                   store |-> r.id]

(***************************************************************************)
(* Revenue comparison, tools/analytics_tools.py lines 159-242.  Amounts    *)
(* are whole rupiah; a percentage is held in hundredths of a percent.      *)
(***************************************************************************)
\* round(num / den, 0) for den > 0, a tie going to the even neighbour
RoundHalfEven(num, den) ==
    LET a == IF num < 0 THEN 0 - num ELSE num
        q == a \div den
        r == a % den
        v == IF 2 * r > den \/ (2 * r = den /\ q % 2 = 1) THEN q + 1 ELSE q
    IN  IF num < 0 THEN 0 - v ELSE v

\* the comparison with no growth reported over a period without revenue
compare_revenue_no_zero_base(rev1, rev2) ==
    [growth_percentage  |-> IF rev1 > 0 THEN RoundHalfEven((rev2 - rev1) * 10000, rev1) ELSE 0,
     growth_direction   |-> IF rev1 > 0 /\ rev2 > rev1 THEN "up"
                            ELSE IF rev1 > 0 /\ rev2 < rev1 THEN "down" ELSE "flat",
     revenue_difference |-> rev2 - rev1]

\* lines 214-241: rev1 is the revenue of period1, rev2 that of period2; the
\* direction is taken from the percentage before round(growth_percentage, 2)
compare_revenue(rev1, rev2) ==
    LET growing   == IF rev1 > 0 THEN rev2 > rev1 ELSE rev2 > 0
        shrinking == rev1 > 0 /\ rev2 < rev1
    IN  [growth_percentage  |-> IF rev1 > 0 THEN RoundHalfEven((rev2 - rev1) * 10000, rev1)
                                ELSE IF rev2 > 0 THEN 10000 ELSE 0,
         growth_direction   |-> IF growing THEN "up" ELSE IF shrinking THEN "down" ELSE "flat",
         revenue_difference |-> rev2 - rev1]

(***************************************************************************)
(* Churned customers, tools/customer_tools.py lines 155-221.  An order row *)
(* holds its age in days, whether its status is cancelled and whether its  *)
(* created_at parses; a customer row holds the customer's orders, oldest   *)
(* first.                                                                  *)
(***************************************************************************)
Order(age, cancelled, readable) == [age |-> age, cancelled |-> cancelled, readable |-> readable]

\* lines 193-198: .neq('status', 'cancelled').order('created_at')
NotCancelled(orders) == SelectSeq(orders, LAMBDA o : ~o.cancelled)

\* sorted(churned, key=days_since_order, reverse=True): stable, equal keys
\* keep their order
RECURSIVE InsertByDays(_, _)
InsertByDays(sorted, row) ==
    IF sorted = <<>> THEN <<row>>
    ELSE IF Head(sorted).days_since_order < row.days_since_order THEN <<row>> \o sorted
    ELSE <<Head(sorted)>> \o InsertByDays(Tail(sorted), row)

RECURSIVE SortByDays(_, _)
SortByDays(rows, sorted) ==
    IF rows = <<>> THEN sorted ELSE SortByDays(Tail(rows), InsertByDays(sorted, Head(rows)))

\* the loop of lines 191-218 from customer k on, every order counted
RECURSIVE ChurnLoopAllOrders(_, _, _, _, _)
ChurnLoopAllOrders(customers, k, days_inactive, limit, churned) ==
    IF k > Len(customers) THEN churned
    ELSE LET order_list == customers[k].orders
             found == IF Len(order_list) = 1 /\ order_list[1].readable
                         /\ order_list[1].age > days_inactive
                      THEN Append(churned, [customer_id |-> customers[k].id,
                                            days_since_order |-> order_list[1].age])
                      ELSE churned
         IN  IF Len(found) >= limit THEN found
             ELSE ChurnLoopAllOrders(customers, k + 1, days_inactive, limit, found)

\* the query with cancelled orders counted as orders
get_churned_customers_counting_cancelled(table, days_inactive, limit) ==
    LET days == IF days_inactive < 0 THEN 0 ELSE days_inactive
        customers == SubSeq(table, 1, IF Len(table) < limit * 2 THEN Len(table) ELSE limit * 2)
    IN  SortByDays(ChurnLoopAllOrders(customers, 1, days, limit, <<>>), <<>>)

\* the loop of lines 191-218 from customer k on
RECURSIVE ChurnLoop(_, _, _, _, _)
ChurnLoop(customers, k, days_inactive, limit, churned) ==
    IF k > Len(customers) THEN churned
    ELSE LET order_list == NotCancelled(customers[k].orders)
             found == IF Len(order_list) = 1 /\ order_list[1].readable
                         /\ order_list[1].age > days_inactive
                      THEN Append(churned, [customer_id |-> customers[k].id,
                                            days_since_order |-> order_list[1].age])
                      ELSE churned
         IN  IF Len(found) >= limit THEN found
             ELSE ChurnLoop(customers, k + 1, days_inactive, limit, found)

\* CustomerTools.get_churned_customers, lines 155-221, on the customers table
churned_customers(table, days_inactive, limit) ==
    LET days == IF days_inactive < 0 THEN 0 ELSE days_inactive
        customers == SubSeq(table, 1, IF Len(table) < limit * 2 THEN Len(table) ELSE limit * 2)
    IN  SortByDays(ChurnLoop(customers, 1, days, limit, <<>>), <<>>)

(***************************************************************************)
(* Inputs                                                                  *)
(***************************************************************************)
\* order histories of a customer
Histories ==
    {<<>>,
     <<Order(45, FALSE, TRUE)>>,
     <<Order(45, TRUE, TRUE)>>,
     <<Order(45, FALSE, FALSE)>>,
     <<Order(30, FALSE, TRUE)>>,
     <<Order(60, FALSE, TRUE), Order(45, FALSE, TRUE)>>,
     <<Order(60, TRUE, TRUE), Order(45, FALSE, TRUE)>>,
     <<Order(60, FALSE, TRUE), Order(45, TRUE, TRUE)>>,
     <<Order(45, FALSE, TRUE), Order(10, FALSE, TRUE)>>}

\* the customers tables of n rows
RECURSIVE CustomerTables(_)
CustomerTables(n) ==
    IF n = 0 THEN {<<>>}
    ELSE {Append(t, [id |-> n, orders |-> h]) : t \in CustomerTables(n - 1), h \in Histories}

(***************************************************************************)
(* Customer service agent: extraction of a phone number and of an order    *)
(* id from a message, customer_service_agent_v2.py lines 454-481           *)
(***************************************************************************)
At(s, i) == IF i \in 1..Len(s) THEN Char(s, i) ELSE ""

StartsAt(s, p, t) == p + Len(t) - 1 <= Len(s) /\ SubSeq(s, p, p + Len(t) - 1) = t

\* \w of an ASCII text: a letter, a digit or the underscore
IsWordChar(c) ==
    \/ IsDigit(c)
    \/ c = "_"
    \/ \E k \in 1..26 : c = Char(LowerChars, k) \/ c = Char(UpperChars, k)

\* re.search: the match at the leftmost position where the pattern matches,
\* MatchLen(p) being the length of the match anchored at p, 0 for none
FirstMatch(s, MatchLen(_)) ==
    LET starts == {p \in 1..Len(s) : MatchLen(p) > 0}
    IN  IF starts = {} THEN None
        ELSE LET p == CHOOSE j \in starts : \A k \in starts : j <= k
             IN  SubSeq(s, p, p + MatchLen(p) - 1)

\* r'(?:\+62|62|0)8[1-9][0-9]{least,10}' anchored at p (least is 7, line 457)
PrefixedPhoneLen(s, p, least) ==
    LET pre == IF StartsAt(s, p, "+62") THEN 3
               ELSE IF StartsAt(s, p, "62") THEN 2
               ELSE IF StartsAt(s, p, "0") THEN 1 ELSE 0
        run == DigitRun(s, p + pre + 2)
    IN  IF /\ pre > 0
           /\ At(s, p + pre) = "8"
           /\ At(s, p + pre + 1) \in DigitSet \ {"0"}
           /\ run >= least
        THEN pre + 2 + (IF run > 10 THEN 10 ELSE run)
        ELSE 0

\* r'\b08[0-9]{8,11}\b' anchored at p: digits are word characters, so the
\* closing \b needs the whole digit run, and a non-word character after it
BoundedPhoneLen(s, p) ==
    LET run == DigitRun(s, p + 2)
    IN  IF /\ StartsAt(s, p, "08")
           /\ ~IsWordChar(At(s, p - 1))
           /\ run \in 8..11
           /\ ~IsWordChar(At(s, p + 2 + run))
        THEN 2 + run
        ELSE 0

\* the first pattern accepting a digit run of 5
extract_phone_short_run(message) ==
    LET first == FirstMatch(message, LAMBDA p : PrefixedPhoneLen(message, p, 5))
    IN  IF first # None THEN first
        ELSE FirstMatch(message, LAMBDA p : BoundedPhoneLen(message, p))

\* _extract_phone, lines 454-465: the patterns in order, the first match
extract_phone(message) ==
    LET first == FirstMatch(message, LAMBDA p : PrefixedPhoneLen(message, p, 7))
    IN  IF first # None THEN first
        ELSE FirstMatch(message, LAMBDA p : BoundedPhoneLen(message, p))

\* [0-9a-f] under re.IGNORECASE
IsHexIgnoreCase(c) == \E k \in 1..16 : LowerChar(c) = Char(HexDigits, k)

HexRun(s, p, n) == p + n - 1 <= Len(s) /\ \A k \in 0..(n - 1) : IsHexIgnoreCase(Char(s, p + k))

\* uuid_pattern anchored at p, line 470: 8-4-4-4-12 hex digits between dashes
UuidLen(s, p) ==
    IF /\ p + 35 <= Len(s)
       /\ \A k \in 0..35 : IF k \in {8, 13, 18, 23} THEN Char(s, p + k) = "-"
                             ELSE IsHexIgnoreCase(Char(s, p + k))
    THEN 36 ELSE 0

\* short_pattern anchored at p: where its group starts, 0 for no match;
\* r'#?([0-9a-f]{8})' (customer service, line 476), with a closing \b in the
\* WhatsApp agent (whatsapp_agent_v2.py line 307)
ShortGroupAt(s, p, bounded) ==
    IF At(s, p) = "#" /\ HexRun(s, p + 1, 8) /\ (bounded => ~IsWordChar(At(s, p + 9)))
    THEN p + 1
    ELSE IF HexRun(s, p, 8) /\ (bounded => ~IsWordChar(At(s, p + 8)))
    THEN p
    ELSE 0

search_short_id(message, bounded) ==
    LET starts == {p \in 1..Len(message) : ShortGroupAt(message, p, bounded) > 0}
    IN  IF starts = {} THEN None
        ELSE LET p == CHOOSE j \in starts : \A k \in starts : j <= k
                 g == ShortGroupAt(message, p, bounded)
             IN  SubSeq(message, g, g + 7)

\* the short id searched before the UUID
extract_order_id_short_first(message, bounded) ==
    IF search_short_id(message, bounded) # None THEN search_short_id(message, bounded)
    ELSE FirstMatch(message, LAMBDA p : UuidLen(message, p))

\* _extract_order_id, lines 467-481 (and whatsapp_agent_v2.py 298-312)
extract_order_id(message, bounded) ==
    LET uuid == FirstMatch(message, LAMBDA p : UuidLen(message, p))
    IN  IF uuid # None THEN uuid ELSE search_short_id(message, bounded)

\* messages around an order id: text before, the id, text after
OrderTexts ==
    {a \o b \o c :
        a \in {"", "pesanan ", "#deadbeef ", "cek 12345678: ", "f", "#",
               "29edf3ae-6ac3-42b3-abf8-90494dcdc7c5 dan "},
        b \in {"", "01234567-89ab-cdef-1032-547698badcfe",
               "01234567-89AB-CDEF-1032-547698BADCFE",
               "0123456-89ab-cdef-1032-547698badcfe",
               "01234567-89ab-cdef-1032-547698badcfg",
               "0badcafe", "0badcafe1", "0badcaf"},
        c \in {"", " ya", "ab", " #0BADF00D", "-89ab-cdef-1032-547698badcfe", "_"}}

(***************************************************************************)
(* WhatsApp agent: process_message and its handlers,                       *)
(* whatsapp_agent_v2.py lines 48-297                                       *)
(***************************************************************************)
\* str.upper
UpperChar(c) ==
    IF \E k \in 1..26 : c = Char(LowerChars, k)
    THEN Char(UpperChars, CHOOSE k \in 1..26 : c = Char(LowerChars, k))
    ELSE c

RECURSIVE Upper(_)
Upper(s) == IF s = "" THEN "" ELSE UpperChar(Char(s, 1)) \o Upper(SubSeq(s, 2, Len(s)))

\* first line of WELCOME_MESSAGE, lines 20-26
WELCOME_MESSAGE == "Halo! Selamat datang di Smart Laundry!"

ActionKeys == {"success", "response", "action"}
ActionDataKeys == {"success", "response", "action", "data"}

WaReturned(success, response, keys, action, calls) ==
    [raised |-> FALSE, success |-> success, response |-> response, keys |-> keys,
     action |-> action, calls |-> calls]

\* a handler around one client call, lines 116-158 (and 160-193, 195-230,
\* 258-292): nothing found, rows found, or the except branch
WaToolHandler(calls, env, tool, arg, missing, missing_action, found, found_action, failed) ==
    LET log == Append(calls, [tool |-> tool, arg |-> arg, ok |-> env.call # "raises"])
    IN  CASE env.call = "raises" -> WaReturned(FALSE, failed, ErrorKeys, None, log)
          [] env.call = "nothing" -> WaReturned(TRUE, missing, ActionKeys, missing_action, log)
          [] OTHER -> WaReturned(TRUE, found, ActionDataKeys, found_action, log)

is_greeting(message) ==
    AnyKeyword(message, {"halo", "hello", "hi", "hai", "hey", "assalam", "pagi", "siang", "sore", "malam"})

\* process_message, lines 54-114
whatsapp_process_message(message, sender_phone, loaded, env) ==
    IF message = "" \/ Strip(message) = ""
    THEN WaReturned(TRUE, WELCOME_MESSAGE, ActionKeys, "welcome", <<>>)
    ELSE
    LET calls == IF loaded THEN <<>>
                 ELSE <<[tool |-> "load_whatsapp_tools", arg |-> "", ok |-> env.load = "ok"]>>
        message_clean == Upper(Strip(message))
        order_id == extract_order_id(message, TRUE)
    IN  IF ~loaded /\ env.load = "raises"
        THEN [raised |-> TRUE, success |-> FALSE, response |-> "", keys |-> {},
              action |-> None, calls |-> calls]
        ELSE IF message_clean \in {"CEK", "STATUS", "1"}
        THEN WaToolHandler(calls, env, "check-order-status", sender_phone,
                           "Tidak ditemukan pesanan aktif untuk nomor Anda.", "status_not_found",
                           "*Status Pesanan Anda:*", "status_found",
                           "Maaf, terjadi kesalahan. Silakan coba lagi nanti.")
        ELSE IF message_clean \in {"HARGA", "PRICE", "2"}
        THEN WaToolHandler(calls, env, "get-all-services", "",
                           "Maaf, daftar layanan sedang tidak tersedia.", "prices_unavailable",
                           "*Daftar Layanan & Harga:*", "prices",
                           "Maaf, gagal mengambil daftar harga.")
        ELSE IF message_clean \in {"POIN", "POINTS", "3"}
        THEN WaToolHandler(calls, env, "get-customer-points", sender_phone,
                           "Anda belum terdaftar sebagai member.", "not_member",
                           "*Poin Loyalitas*", "points",
                           "Maaf, gagal mengecek poin Anda.")
        ELSE IF message_clean \in {"HELP", "BANTUAN", "4"}
        THEN WaReturned(TRUE, "*Bantuan Smart Laundry*", ActionKeys, "help", calls)
        ELSE IF is_greeting(Lower(message))
        THEN WaReturned(TRUE, WELCOME_MESSAGE, ActionKeys, "greeting", calls)
        ELSE IF order_id # None
        THEN WaToolHandler(calls, env, "get-order-by-id", order_id,
                           "Pesanan #" \o SubSeq(order_id, 1, 8) \o " tidak ditemukan.", "order_not_found",
                           "*Detail Pesanan #" \o SubSeq(order_id, 1, 8) \o "*", "order_found",
                           "Maaf, gagal mencari pesanan.")
        ELSE WaReturned(TRUE, "Maaf, saya tidak mengerti pesan Anda.", ActionKeys, "unknown", calls)

\* what the toolbox does during a WhatsApp request
WaEnvs == [load : {"ok", "raises"}, call : {"rows", "nothing", "raises"}]

WaMessages ==
    {"", " ", " \t\n", "cek", " Status ", "1", "harga", "2", "poin", "POINTS", "3", "help", "4",
     "halo kak", "selamat pagi", "pesanan 01234567-89ab-cdef-1032-547698badcfe", "#deadbeef",
     "cek pesanan", "terima kasih", "berapa lama"}

(***************************************************************************)
(* The date windows of a revenue comparison, tools/analytics_tools.py      *)
(* lines 176-214; a time is a number of clock ticks, two ticks to the day  *)
(***************************************************************************)
\* timedelta(days=n)
Days(n) == 2 * n

\* get_period_dates, lines 176-191, for the periods of a comparison; every
\* call reads the clock itself
get_period_dates(period_name, now) ==
    CASE period_name = "this_week" -> <<now - Days(7), now>>
      [] period_name = "last_week" -> <<now - Days(14), now - Days(7)>>
      [] period_name = "this_month" -> <<now - Days(30), now>>
      [] period_name = "last_month" -> <<now - Days(60), now - Days(30)>>
      [] OTHER -> <<now - Days(7), now>>

\* get_revenue_for_period, lines 193-206: .gte('created_at', start) and
\* .lte('created_at', end) select the order
InPeriod(created_at, window) == window[1] <= created_at /\ created_at <= window[2]

\* lines 208-212: the two windows and whether an order is counted in each
compare_revenue_windows(period1, period2, now1, now2, created_at) ==
    LET window1 == get_period_dates(period1, now1)
        window2 == get_period_dates(period2, now2)
    IN  [window1 |-> window1, window2 |-> window2,
         counted1 |-> InPeriod(created_at, window1),
         counted2 |-> InPeriod(created_at, window2)]

\* the comparisons of a period with the one before it, in either order
PeriodPairs ==
    {<<"this_week", "last_week">>, <<"last_week", "this_week">>,
     <<"this_month", "last_month">>, <<"last_month", "this_month">>}

(***************************************************************************)
(* Notification tools, tools/notification_tools.py lines 12-208            *)
(***************************************************************************)
\* TEMPLATES, lines 12-50: the fields each template formats
TEMPLATES ==
    [k \in {"order_created", "order_ready", "order_completed", "payment_reminder", "promo", "custom"} |->
        CASE k \in {"order_created", "order_ready", "payment_reminder"}
                 -> {"customer_name", "order_id", "total"}
          [] k = "order_completed" -> {"customer_name"}
          [] k = "promo" -> {"customer_name", "promo_message", "expiry_date"}
          [] k = "custom" -> {"message"}]

\* lines 191-192: TEMPLATES.get(f"order_{notification_type}", TEMPLATES.get('custom'))
template_for(notification_type) ==
    IF ("order_" \o notification_type) \in DOMAIN TEMPLATES
    THEN TEMPLATES["order_" \o notification_type]
    ELSE TEMPLATES["custom"]

\* send_whatsapp_message, lines 67-163: the fields of what it returns
send_whatsapp_message(phone, gateway) ==
    IF phone = "" THEN {"success", "error"}
    ELSE CASE gateway = "disabled" -> {"success", "error", "simulated", "phone", "message"}
           [] gateway = "no_url" -> {"success", "error"}
           [] gateway = "200" -> {"success", "phone", "message_length"}
           [] gateway = "500" -> {"success", "error", "details"}
           [] OTHER -> {"success", "error"}

\* send_order_notification, lines 165-208; str.format raises KeyError for a
\* field of the template that is not among the keyword arguments
send_order_notification(order_id, notification_type, customer_phone, gateway) ==
    IF notification_type \notin {"created", "ready", "completed", "payment_reminder"}
    THEN [raised |-> FALSE, success |-> FALSE, keys |-> {"success", "error"},
          notification_type |-> None, order_id |-> None]
    ELSE IF ~(template_for(notification_type) \subseteq {"customer_name", "order_id", "total"})
    THEN [raised |-> TRUE, success |-> FALSE, keys |-> {},
          notification_type |-> None, order_id |-> None]
    ELSE [raised |-> FALSE,
          success |-> customer_phone # "" /\ gateway = "200",
          keys |-> send_whatsapp_message(customer_phone, gateway) \cup {"notification_type", "order_id"},
          notification_type |-> notification_type,
          order_id |-> order_id]

(***************************************************************************)
(* HTTP routes, api/routes_v2.py lines 60-392                              *)
(***************************************************************************)
\* routes answering with the object an agent handler returns
AgentRoutes ==
    {"chat", "analytics", "daily_report", "weekly_report", "monthly_report", "list_stores",
     "churned_customers", "inactive_customers", "whatsapp_webhook"}

\* routes answering with the rows (or the first row) a client call returns
RowsRoutes == {"order_status", "search_customers", "list_services"}
FirstRowRoutes == {"order_details", "customer_points"}

Routes == {"health_check"} \cup AgentRoutes \cup RowsRoutes \cup FirstRowRoutes

\* routes that test a field of the request before anything else
RequiredField ==
    [endpoint \in {"chat", "analytics", "whatsapp_webhook", "search_customers"} |->
        CASE endpoint = "chat" -> "message"
          [] endpoint = "analytics" -> "query"
          [] endpoint = "whatsapp_webhook" -> "phone"
          [] endpoint = "search_customers" -> "q"]

\* what the awaited call of a route does: an agent returns an object with
\* success true or false; a client call returns rows or nothing; either may
\* raise, and run_async gives up after 60 seconds
Outcomes(endpoint) ==
    IF endpoint = "health_check" THEN {"none"}
    ELSE IF endpoint \in AgentRoutes THEN {"success", "failure", "raises", "timeout"}
    ELSE {"rows", "nothing", "raises", "timeout"}

HttpResponse(status, success) == [status |-> status, success |-> success]

\* an agent's success=false object answered with status 400
api_route_failure_as_400(endpoint, has_field, outcome) ==
    IF endpoint = "health_check" THEN [status |-> 200]
    ELSE IF endpoint \in DOMAIN RequiredField /\ ~has_field THEN HttpResponse(400, FALSE)
    ELSE IF outcome = "timeout" THEN [status |-> 500]
    ELSE IF outcome = "raises" THEN HttpResponse(500, FALSE)
    ELSE IF endpoint \in AgentRoutes
    THEN HttpResponse(IF outcome = "success" THEN 200 ELSE 400, outcome = "success")
    ELSE IF endpoint \in FirstRowRoutes /\ outcome = "nothing" THEN HttpResponse(404, FALSE)
    ELSE HttpResponse(200, TRUE)

\* a route of the blueprint: the field test (400), the awaited call inside
\* try (500 on an exception), jsonify of the result; future.result(timeout=60)
\* raises outside the try and leaves the answer to the framework (500)
api_route(endpoint, has_field, outcome) ==
    IF endpoint = "health_check" THEN [status |-> 200]
    ELSE IF endpoint \in DOMAIN RequiredField /\ ~has_field THEN HttpResponse(400, FALSE)
    ELSE IF outcome = "timeout" THEN [status |-> 500]
    ELSE IF outcome = "raises" THEN HttpResponse(500, FALSE)
    ELSE IF endpoint \in AgentRoutes THEN HttpResponse(200, outcome = "success")
    ELSE IF endpoint \in FirstRowRoutes /\ outcome = "nothing" THEN HttpResponse(404, FALSE)
    ELSE HttpResponse(200, TRUE)

\* messages around a phone number: text before, the prefix, the digits, text after
PhoneTexts ==
    {a \o b \o c \o d :
        a \in {"", "hp ", "a", "1", "+"},
        b \in {"", "0", "62", "+62", "08"},
        c \in {"", "8123456", "81234567", "812345678", "81234567890", "80123456789",
               "8123456789012", "81234567890123", "7123456789"},
        d \in {"", " ya", "a", "5"}}

\* 16-byte sequences, and the values _format_uuid is applied to: text in
\* both letter cases, with and without dashes, bytes and lists of byte
\* values of 16 and of other lengths, None
ByteSeqs ==
    {[i \in 1..16 |-> (a * i + c) % 256] : a \in {0, 1, 7, 17, 255}, c \in {0, 9, 10, 15, 16, 255}}

UuidInputs ==
    {NoneV, StrV(""), StrV("abc"), StrV("29edf3ae-6ac3-42b3-abf8-90494dcdc7c5"),
     StrV("29edf3ae6ac342b3abf890494dcdc7c5"),
     StrV("29EDF3AE-6AC3-42B3-ABF8-90494DCDC7C5"),
     StrV("29EDF3AE6AC342B3ABF890494DCDC7C5"),
     BytesV(<<>>), BytesV(<<1, 2, 3>>), ListV(<<1, 2, 3>>),
     BytesV(<<17, 34, 51, 68, 85, 102, 119, 136, 153, 170, 187, 204, 221, 238, 255, 0>>),
     BytesV(<<1, 35, 69, 103, 137, 171, 205, 239, 16, 50, 84, 118, 152, 186, 220, 254>>),
     ListV(<<1, 35, 69, 103, 137, 171, 205, 239, 16, 50, 84, 118, 152, 186, 220, 254>>)}
        \cup {BytesV(b) : b \in ByteSeqs} \cup {ListV(b) : b \in ByteSeqs}
        \cup {StrV(Dashed(HexOf(b))) : b \in ByteSeqs}

\* revenues of a period, in rupiah
Revenues == {0, 1, 3, 4, 100, 150, 20001, 20002, 40000}

\* words and phrases messages are built from: one or more per keyword
\* category, words outside every category, a phone number, a store name
Vocab ==
    <<"banding", "bulan", "minggu", "hari ini", "cabang", "info toko", "top",
      "ramai", "churn", "inactive", "total poin", "redeem", "dapat poin",
      "info poin", "poin", "halo", "081234567890", "Sudirman">>

\* the messages of exactly n words of vocab, joined by single spaces
RECURSIVE MessagesOfWords(_, _)
MessagesOfWords(vocab, n) ==
    IF n = 0 THEN {""}
    ELSE IF n = 1 THEN {vocab[k] : k \in 1..Len(vocab)}
    ELSE {m \o " " \o vocab[k] : m \in MessagesOfWords(vocab, n - 1), k \in 1..Len(vocab)}

Messages == UNION {MessagesOfWords(Vocab, n) : n \in 0..MaxWords}

\* messages the two-stage classification is probed with
StageVocab == <<"banding", "bulan", "poin", "halo", "Sudirman", "081234567890">>

StageMessages == UNION {MessagesOfWords(StageVocab, n) : n \in 0..MaxWords}

\* replies of the completion service
LLMTexts ==
    {"",
     "   ",
     "Maaf, saya tidak mengerti.",
     "{\"intent\": \"weekly_revenue\", \"store_name\": null, \"phone_number\": null, \"period\": \"week\"}",
     "~~~json\n{\"intent\": \"points_check\", \"phone_number\": \"081234567890\"}\n~~~",
     "~~~\n{\"intent\": \"store_list\"}\n~~~",
     "~~~",
     "{\"intent\": \"general\", \"store_name\": \"sudirman\"}",
     "{\"intent\": \"revenue_report\"}",
     "{\"intent\": null}",
     "{}",
     "[\"daily_revenue\"]",
     "42"}

LLMBehaviours ==
    {LLM(FALSE, FALSE, ""), LLM(TRUE, TRUE, "")} \cup {LLM(TRUE, FALSE, t) : t \in LLMTexts}

\* store names and queries the match score is probed with
ScoreNames ==
    {"ruang laundry sudirman", "laundry sudirman", "toko laundry", "laundry kemang",
     "a b", "sudirman"}

ScoreWords == <<"laporan", "toko", "laundry", "sudirman", "ruang", "b">>

ScoreQueries == UNION {MessagesOfWords(ScoreWords, n) : n \in 0..(MaxWords + 1)}

(***************************************************************************)
(* State                                                                   *)
(***************************************************************************)
NoProbe ==
    [fn |-> "none", query |-> "", llm |-> NoLLM, out |-> GeneralResult,
     llm_called |-> FALSE, name |-> "", score |-> 0, args |-> <<>>]

NoResult ==
    [raised |-> FALSE, success |-> FALSE, response |-> "", keys |-> {},
     listed |-> <<>>, more |-> 0]

Idle ==
    [op |-> "none", query |-> "", sid |-> None, intent |-> None,
     result |-> NoResult, calls |-> <<>>, value |-> ""]

\* the coroutines of _load_store_cache on the event loop, none started yet
Loaders == {1, 2}

NoLoaders == [t \in Loaders |-> [pc |-> "start", end |-> "none"]]

(***************************************************************************)
(* Pure functions applied to bounded inputs: each behaviour of SpecPure     *)
(* applies one function to one input.                                      *)
(***************************************************************************)
ProbeKeywords ==
    /\ probe.fn = "none"
    /\ \E query \in Messages :
        /\ probe' = [NoProbe EXCEPT !.fn = "classify_intent_with_keywords",
                                    !.query = Lower(query),
                                    !.out = classify_intent_with_keywords(Lower(query))]
        /\ UNCHANGED <<store_cache, tools_loaded, store_id, use_llm_fallback, db_stores, last, loaders>>

ProbeLLM ==
    /\ probe.fn = "none"
    /\ \E query \in MessagesOfWords(StageVocab, 1), llm \in LLMBehaviours :
        /\ probe' = [NoProbe EXCEPT !.fn = "classify_intent_with_llm",
                                    !.query = query,
                                    !.llm = llm,
                                    !.out = classify_intent_with_llm(query, llm)]
        /\ UNCHANGED <<store_cache, tools_loaded, store_id, use_llm_fallback, db_stores, last, loaders>>

ProbeStages ==
    /\ probe.fn = "none"
    /\ \E query \in StageMessages, llm \in LLMBehaviours :
        LET r == classify_stages(query, use_llm_fallback, llm) IN
        /\ probe' = [NoProbe EXCEPT !.fn = "classify_stages",
                                    !.query = query,
                                    !.llm = llm,
                                    !.out = r.classification,
                                    !.llm_called = r.llm_called]
        /\ UNCHANGED <<store_cache, tools_loaded, store_id, use_llm_fallback, db_stores, last, loaders>>

ProbeScore ==
    /\ probe.fn = "none"
    /\ \E name \in ScoreNames, query \in ScoreQueries :
        /\ probe' = [NoProbe EXCEPT !.fn = "calculate_store_match_score",
                                    !.name = name,
                                    !.query = query,
                                    !.score = calculate_store_match_score(name, query)]
        /\ UNCHANGED <<store_cache, tools_loaded, store_id, use_llm_fallback, db_stores, last, loaders>>

ProbeCompareRevenue ==
    /\ probe.fn = "none"
    /\ \E rev1 \in Revenues, rev2 \in Revenues :
        /\ probe' = [NoProbe EXCEPT !.fn = "compare_revenue",
                                    !.args = <<rev1, rev2>>,
                                    !.out = compare_revenue(rev1, rev2)]
        /\ UNCHANGED <<store_cache, tools_loaded, store_id, use_llm_fallback, db_stores, last, loaders>>

ProbeChurned ==
    /\ probe.fn = "none"
    /\ \E table \in CustomerTables(MaxCustomers), days \in {30, 44, -1}, limit \in {1, 2} :
        /\ probe' = [NoProbe EXCEPT !.fn = "get_churned_customers",
                                    !.args = <<table, days, limit>>,
                                    !.out = churned_customers(table, days, limit)]
        /\ UNCHANGED <<store_cache, tools_loaded, store_id, use_llm_fallback, db_stores, last, loaders>>

ProbeFormatUuid ==
    /\ probe.fn = "none"
    /\ \E uuid_value \in UuidInputs :
        /\ probe' = [NoProbe EXCEPT !.fn = "format_uuid",
                                    !.args = <<uuid_value>>,
                                    !.out = format_uuid(uuid_value)]
        /\ UNCHANGED <<store_cache, tools_loaded, store_id, use_llm_fallback, db_stores, last, loaders>>

ProbeExtractPhone ==
    /\ probe.fn = "none"
    /\ \E agent \in {"customer_service", "analytics"}, message \in PhoneTexts :
        /\ probe' = [NoProbe EXCEPT !.fn = "extract_phone",
                                    !.args = <<agent, message>>,
                                    !.out = IF agent = "customer_service"
                                            THEN extract_phone(message)
                                            ELSE search_phone(Lower(message))]
        /\ UNCHANGED <<store_cache, tools_loaded, store_id, use_llm_fallback, db_stores, last, loaders>>

ProbeExtractOrderId ==
    /\ probe.fn = "none"
    /\ \E bounded \in BOOLEAN, message \in OrderTexts :
        /\ probe' = [NoProbe EXCEPT !.fn = "extract_order_id",
                                    !.args = <<bounded, message>>,
                                    !.out = extract_order_id(message, bounded)]
        /\ UNCHANGED <<store_cache, tools_loaded, store_id, use_llm_fallback, db_stores, last, loaders>>

ProbeRoute ==
    /\ probe.fn = "none"
    /\ \E endpoint \in Routes, has_field \in BOOLEAN :
        \E outcome \in Outcomes(endpoint) :
            /\ probe' = [NoProbe EXCEPT !.fn = "api_route",
                                        !.args = <<endpoint, has_field, outcome>>,
                                        !.out = api_route(endpoint, has_field, outcome)]
            /\ UNCHANGED <<store_cache, tools_loaded, store_id, use_llm_fallback, db_stores, last, loaders>>

ProbeWhatsApp ==
    /\ probe.fn = "none"
    /\ \E message \in WaMessages, sender_phone \in {"081234567890"}, loaded \in BOOLEAN, env \in WaEnvs :
        /\ probe' = [NoProbe EXCEPT !.fn = "process_message",
                                    !.args = <<message, sender_phone, loaded, env>>,
                                    !.out = whatsapp_process_message(message, sender_phone, loaded, env)]
        /\ UNCHANGED <<store_cache, tools_loaded, store_id, use_llm_fallback, db_stores, last, loaders>>

ProbeNotification ==
    /\ probe.fn = "none"
    /\ \E order_id \in {"", "order-001", "29edf3ae-6ac3-42b3-abf8-90494dcdc7c5"},
          notification_type \in {"created", "ready", "completed", "payment_reminder",
                                 "promo", "custom", "cancelled"},
          customer_phone \in {"", "08123"},
          gateway \in {"disabled", "no_url", "200", "500", "request_error"} :
        /\ probe' = [NoProbe EXCEPT !.fn = "send_order_notification",
                                    !.args = <<order_id, notification_type, customer_phone, gateway>>,
                                    !.out = send_order_notification(order_id, notification_type,
                                                                    customer_phone, gateway)]
        /\ UNCHANGED <<store_cache, tools_loaded, store_id, use_llm_fallback, db_stores, last, loaders>>

ProbeCompareWindows ==
    /\ probe.fn = "none"
    /\ \E periods \in PeriodPairs, now1 \in {200, 201}, tick \in {0, 1}, created_at \in 70..202 :
        /\ probe' = [NoProbe EXCEPT !.fn = "compare_revenue_windows",
                                    !.args = <<periods[1], periods[2], now1, now1 + tick, created_at>>,
                                    !.out = compare_revenue_windows(periods[1], periods[2], now1,
                                                                    now1 + tick, created_at)]
        /\ UNCHANGED <<store_cache, tools_loaded, store_id, use_llm_fallback, db_stores, last, loaders>>

InitPure ==
    /\ store_cache = <<>>
    /\ tools_loaded = FALSE
    /\ store_id = ""
    /\ use_llm_fallback \in BOOLEAN
    /\ db_stores = <<>>
    /\ last = Idle
    /\ probe = NoProbe
    /\ loaders = NoLoaders

NextPure ==
    \/ ProbeKeywords
    \/ ProbeLLM
    \/ ProbeStages
    \/ ProbeScore
    \/ ProbeCompareRevenue
    \/ ProbeChurned
    \/ ProbeFormatUuid
    \/ ProbeExtractPhone
    \/ ProbeExtractOrderId
    \/ ProbeRoute
    \/ ProbeWhatsApp
    \/ ProbeNotification
    \/ ProbeCompareWindows

SpecPure == InitPure /\ [][NextPure]_vars

(***************************************************************************)
(* The agent instance serving requests one at a time: a request runs from  *)
(* the idle state to its response, and Deliver hands the response over.    *)
(***************************************************************************)
U1Hex == "29edf3ae6ac342b3abf890494dcdc7c5"
U1 == "29edf3ae-6ac3-42b3-abf8-90494dcdc7c5"
U3 == "0a0b0c0d-0e0f-4a4b-8c8d-101112131415"
B2 == <<17, 34, 51, 68, 85, 102, 119, 136, 153, 170, 187, 204, 221, 238, 255, 0>>
B4 == <<1, 35, 69, 103, 137, 171, 205, 239, 16, 50, 84, 118, 152, 186, 220, 254>>

\* rows of the stores table, ids in the encodings _format_uuid provides for
AllStores ==
    <<Store("Ruang Laundry Sudirman", StrV(U1Hex)),
      Store("Laundry Kemang", BytesV(B2)),
      Store("Toko Laundry", StrV(U3)),
      Store("Laundry Sudirman", ListV(B4)),
      Store("Outlet Bersih", StrV("5f0e8b1c-2d3a-4c4d-9e9f-a0b1c2d3e4f5")),
      Store("Cabang Melati", StrV("77777777888899990000aaaaaaaabbbb")),
      Store("Store Nusa", StrV("c0ffee00-1234-4abc-8def-0123456789ab")),
      Store("Kilat Wangi", StrV("deadbeef-0000-4111-8222-333344445555"))>>

\* the tables the data store may hold: none, all rows up to MaxStores, and
\* one in which "Laundry Sudirman" is the only store of that name
DbChoices ==
    {SubSeq(AllStores, 1, n) :
        n \in {0, IF MaxStores < Len(AllStores) THEN MaxStores ELSE Len(AllStores)}}
        \cup {SubSeq(AllStores, 2, 4)}

DefaultIds == {"", "77777777888899990000aaaaaaaabbbb"}

Tools ==
    {"load-toolset", "list-stores", "get-daily-revenue", "get-order-status-summary",
     "get-weekly-revenue", "get-monthly-revenue", "get-popular-services",
     "compare-revenue-periods", "get-peak-hours", "get-churned-customers",
     "get-inactive-customers", "get-customer-points", "get-points-summary-by-store"}

AgentLLMs ==
    {LLM(FALSE, FALSE, ""),
     LLM(TRUE, TRUE, ""),
     LLM(TRUE, FALSE, "{\"intent\": \"store_list\"}"),
     LLM(TRUE, FALSE, "{\"intent\": null}")}

Envs ==
    {Env({}, empty, llm) : empty \in BOOLEAN, llm \in AgentLLMs}
        \cup {Env({t}, FALSE, LLM(TRUE, FALSE, "{\"intent\": \"store_list\"}")) : t \in Tools}
        \cup {Env({"list-stores", "get-weekly-revenue"}, FALSE, NoLLM)}

\* for the operations whose only external call is the store-list fetch
CacheEnvs == {Env({}, FALSE, NoLLM), Env({"list-stores"}, FALSE, NoLLM)}

AgentQueries ==
    {"", "   ", " \t\n", "banding bulan", "daftar toko", "info toko sudirman", "info toko",
     "laporan hari ini", "pendapatan minggu ini toko Sudirman", "laporan bulan ini",
     "layanan terlaris", "jam sibuk", "pelanggan churn", "pelanggan tidak aktif",
     "total poin", "tukar poin", "dapat poin", "info poin", "cek poin 081234567890",
     "poin 085700001111",
     "cek poin", "halo", "laporan toko sudirman", "ruang laundry", "laundry kemang"}

\* store_id arguments: None, the empty string, a dashed and an undashed id
StoreIdArgs == {None, "", U1, "112233445566778899aabbccddeeff00"}

Init ==
    /\ store_cache = <<>>
    /\ tools_loaded = FALSE
    /\ store_id \in DefaultIds
    /\ use_llm_fallback \in BOOLEAN
    /\ db_stores \in DbChoices
    /\ last = Idle
    /\ probe = NoProbe
    /\ loaders = NoLoaders

M0 == Machine(store_cache, tools_loaded)

\* a request served: the agent's fields as the handler left them, and what
\* the caller observes
Serve(op, query, sid, outcome, intent, value) ==
    /\ \E o \in {outcome} :
         /\ store_cache' = o.m.cache
         /\ tools_loaded' = o.m.loaded
         /\ last' = [op |-> op, query |-> query, sid |-> sid, intent |-> intent,
                     result |-> o.res, calls |-> o.m.calls, value |-> value]
    /\ UNCHANGED <<store_id, use_llm_fallback, db_stores, probe, loaders>>

NoOutcome(m) == [m |-> m, res |-> NoResult]

ProcessQuery ==
    /\ last.op = "none"
    /\ \E query \in AgentQueries, sid \in {None, "112233445566778899aabbccddeeff00"}, env \in Envs :
             \E r \in {process_query(M0, env, db_stores, store_id, use_llm_fallback, query, sid)} :
                 Serve("process_query", query, sid, r.out, r.intent, r.store)

GetDailyReport ==
    /\ last.op = "none"
    /\ \E sid \in StoreIdArgs, env \in Envs :
             Serve("get_daily_report", "", sid, get_daily_report(M0, env, db_stores, store_id, sid), None, "")

GetWeeklyReport ==
    /\ last.op = "none"
    /\ \E sid \in StoreIdArgs, env \in Envs :
             Serve("get_weekly_report", "", sid, get_weekly_report(M0, env, db_stores, store_id, sid), None, "")

GetMonthlyReport ==
    /\ last.op = "none"
    /\ \E sid \in StoreIdArgs, env \in Envs :
             Serve("get_monthly_report", "", sid, get_monthly_report(M0, env, db_stores, store_id, sid), None, "")

ComparePeriods ==
    /\ last.op = "none"
    /\ \E sid \in StoreIdArgs, env \in Envs :
             Serve("compare_periods", "", sid, compare_periods(M0, env, db_stores, store_id, sid), None, "")

GetTopServices ==
    /\ last.op = "none"
    /\ \E sid \in StoreIdArgs, env \in Envs :
             Serve("get_top_services", "", sid, get_top_services(M0, env, store_id, sid), None, "")

GetPeakHours ==
    /\ last.op = "none"
    /\ \E sid \in StoreIdArgs, env \in Envs :
             Serve("get_peak_hours", "", sid, get_peak_hours(M0, env, store_id, sid), None, "")

GetPointsSummary ==
    /\ last.op = "none"
    /\ \E sid \in StoreIdArgs, env \in Envs :
             Serve("get_points_summary", "", sid, get_points_summary(M0, env, db_stores, store_id, sid), None, "")

GetChurnedCustomers ==
    /\ last.op = "none"
    /\ \E env \in Envs :
             Serve("get_churned_customers", "", None, get_churned_customers(M0, env), None, "")

GetInactiveCustomers ==
    /\ last.op = "none"
    /\ \E env \in Envs :
             Serve("get_inactive_customers", "", None, get_inactive_customers(M0, env), None, "")

GetCustomerPoints ==
    /\ last.op = "none"
    /\ \E phone \in {PointsRows[i].phone : i \in 1..Len(PointsRows)} \cup {"080000000000"},
          env \in Envs :
             Serve("get_customer_points", phone, None, get_customer_points(M0, env, phone), None, "")

ListStores ==
    /\ last.op = "none"
    /\ \E env \in Envs :
             Serve("list_stores", "", None, list_stores(M0, env, db_stores), None, "")

GetStoreByName ==
    /\ last.op = "none"
    /\ \E name \in {"sudirman", "laundry kemang", "melati", "toko laundry"}, env \in CacheEnvs :
             Serve("get_store_by_name", name, None, get_store_by_name(M0, env, db_stores, name), None, "")

LoadStoreCache ==
    /\ last.op = "none"
    /\ \E env \in CacheEnvs :
             Serve("load_store_cache", "", None, NoOutcome(load_store_cache(M0, env, db_stores)), None, "")

ClearStoreCache ==
    /\ last.op = "none"
    /\ Serve("clear_store_cache", "", None, NoOutcome([M0 EXCEPT !.cache = <<>>]), None, "")

ResolveStoreId ==
    /\ last.op = "none"
    /\ \E query \in AgentQueries, sid \in StoreIdArgs \ {None}, env \in CacheEnvs :
             \E r \in {resolve_store_id(M0, env, db_stores, store_id, query, sid)} :
                 Serve("resolve_store_id", query, sid, NoOutcome(r.m), None, r.id)

\* the response reaches the caller; the agent is idle again
Deliver ==
    /\ last.op # "none"
    /\ last' = Idle
    /\ UNCHANGED <<store_cache, tools_loaded, store_id, use_llm_fallback, db_stores, probe, loaders>>

Next ==
    \/ ProcessQuery
    \/ GetDailyReport
    \/ GetWeeklyReport
    \/ GetMonthlyReport
    \/ ComparePeriods
    \/ GetTopServices
    \/ GetPeakHours
    \/ GetPointsSummary
    \/ GetChurnedCustomers
    \/ GetInactiveCustomers
    \/ GetCustomerPoints
    \/ ListStores
    \/ GetStoreByName
    \/ LoadStoreCache
    \/ ClearStoreCache
    \/ ResolveStoreId
    \/ Deliver

Spec == Init /\ [][Next]_vars

(***************************************************************************)
(* Two requests loading the store cache on one event loop.  A coroutine    *)
(* runs undisturbed between its await points; _load_store_cache has one,   *)
(* the store-list fetch of line 135.                                       *)
(***************************************************************************)
\* tables the race is run on: the prefixes of the stores table, and one whose
\* two rows share a lowercased name
RaceDbChoices ==
    {SubSeq(AllStores, 1, n) : n \in 0..(IF MaxStores < Len(AllStores) THEN MaxStores ELSE Len(AllStores))}
        \cup {<<Store("Laundry Kemang", BytesV(B2)), Store("LAUNDRY KEMANG", StrV(U3))>>}

InitRace ==
    /\ store_cache = <<>>
    /\ tools_loaded = TRUE
    /\ store_id = ""
    /\ use_llm_fallback = FALSE
    /\ db_stores \in RaceDbChoices
    /\ last = Idle
    /\ probe = NoProbe
    /\ loaders = NoLoaders

\* line 133: the emptiness test, then the fetch is sent and the coroutine
\* is suspended (line 135)
LoaderStart(t) ==
    /\ loaders[t].pc = "start"
    /\ loaders' = [loaders EXCEPT ![t] =
                      IF store_cache # <<>> THEN [pc |-> "done", end |-> "skipped"]
                      ELSE [pc |-> "awaiting", end |-> "none"]]
    /\ UNCHANGED <<store_cache, tools_loaded, store_id, use_llm_fallback, db_stores, last, probe>>

\* lines 136-142: the fetch answers and the rows are written into the cache
LoaderPopulate(t) ==
    /\ loaders[t].pc = "awaiting"
    /\ store_cache' = CacheNormalized(store_cache, db_stores)
    /\ loaders' = [loaders EXCEPT ![t] = [pc |-> "done", end |-> "populated"]]
    /\ UNCHANGED <<tools_loaded, store_id, use_llm_fallback, db_stores, last, probe>>

\* lines 143-146: the fetch raises; the exception is logged
LoaderFail(t) ==
    /\ loaders[t].pc = "awaiting"
    /\ loaders' = [loaders EXCEPT ![t] = [pc |-> "done", end |-> "failed"]]
    /\ UNCHANGED <<store_cache, tools_loaded, store_id, use_llm_fallback, db_stores, last, probe>>

NextRace ==
    \E t \in Loaders : LoaderStart(t) \/ LoaderPopulate(t) \/ LoaderFail(t)

SpecRace == InitRace /\ [][NextRace]_vars

(***************************************************************************)
(* Properties of the classifier                                            *)
(***************************************************************************)
\* the categories of the keyword stage in their documented priority order
CategoryIntents ==
    <<"compare_periods", "store_list", "store_detail", "daily_revenue",
      "weekly_revenue", "monthly_revenue", "popular_services", "peak_hours",
      "churned_customers", "inactive_customers", "points_summary",
      "points_redeem", "points_earn", "points_info", "points_check">>

CategoryHolds(k, q) ==
    CASE k = 1 -> is_comparison_query(q)
      [] k = 2 -> is_store_list_query(q)
      [] k = 3 -> is_store_detail_query(q)
      [] k = 4 -> is_daily_revenue_query(q)
      [] k = 5 -> is_weekly_query(q)
      [] k = 6 -> is_monthly_query(q)
      [] k = 7 -> is_popular_services_query(q)
      [] k = 8 -> is_peak_hours_query(q)
      [] k = 9 -> is_churned_customers_query(q)
      [] k = 10 -> is_inactive_customers_query(q)
      [] k = 11 -> is_points_summary_query(q)
      [] k = 12 -> is_points_redeem_query(q)
      [] k = 13 -> is_points_earn_query(q)
      [] k = 14 -> is_points_info_query(q)
      [] k = 15 -> is_points_query(q)

FirstCategoryIntent(q) ==
    LET holding == {k \in 1..Len(CategoryIntents) : CategoryHolds(k, q)} IN
    IF holding = {} THEN "general"
    ELSE CategoryIntents[CHOOSE k \in holding : \A j \in holding : k <= j]

\* C2: the keyword stage returns the intent of the first category, in the
\* order comparison, store-list, store-detail, daily, weekly, monthly,
\* popular-services, peak-hours, churned, inactive, points-summary,
\* points-redeem, points-earn, points-info, points-check, whose predicate
\* holds, and "general" if none holds; a message with both "banding" and
\* "bulan" is classified compare_periods.
C2_KeywordPriority ==
    probe.fn = "classify_intent_with_keywords" =>
        /\ probe.out.intent = FirstCategoryIntent(probe.query)
        /\ (Contains(probe.query, "banding") /\ Contains(probe.query, "bulan")
              => probe.out.intent = "compare_periods")

C2_Witness ==
    /\ probe.fn = "classify_intent_with_keywords"
    /\ Contains(probe.query, "banding")
    /\ Contains(probe.query, "bulan")
    /\ probe.out.intent = "compare_periods"

FaultyLLM(llm) ==
    \/ ~llm.configured
    \/ llm.raises
    \/ llm.text = ""
    \/ LET v == json_loads(strip_code_fence(llm.text)) IN
         \/ v.kind # "object"
         \/ "intent" \notin v.keys
         \/ v.intent = None

\* C4: for every behaviour of the LLM capability that is a failure (not
\* configured, raising, empty reply, non-JSON reply, JSON of an unexpected
\* shape) the LLM classification step yields intent "general".
C4_LLMStageDegradesToGeneral ==
    (probe.fn = "classify_intent_with_llm" /\ FaultyLLM(probe.llm))
        => probe.out.intent = "general"

\* C5: after both classification stages the result's intent is a member of
\* the fixed intent enumeration, for every message and every LLM reply.
C5_IntentInEnumeration ==
    probe.fn = "classify_stages" => probe.out.intent \in INTENTS

(***************************************************************************)
(* Properties of the match score                                           *)
(***************************************************************************)
StopSet == {"laundry", "toko", "ruang", "outlet", "cabang", "store"}

\* 1 point per store-name word (of more than MinLen - 1 characters) found in
\* the query, 2 more if it is no stop-set word, 5 if the full name is found
ScoreRule(name, query, MinLen) ==
    LET words == Split(name)
        found == {i \in 1..Len(words) : Len(words[i]) >= MinLen /\ Contains(query, words[i])}
    IN  Cardinality(found)
          + 2 * Cardinality({i \in found : words[i] \notin StopSet})
          + (IF Contains(query, name) THEN 5 ELSE 0)

IsGrowthPercent(h, previous, current) ==
    LET exact == (current - previous) * 10000
        off   == IF h * previous < exact THEN exact - h * previous ELSE h * previous - exact
    IN  2 * off <= previous /\ (2 * off = previous => h % 2 = 0)

GrowthAsStated(previous, current, h) ==
    IF previous > 0 THEN IsGrowthPercent(h, previous, current)
    ELSE IF current > 0 THEN h = 10000
    ELSE h = 0

SignName(n) == IF n > 0 THEN "up" ELSE IF n < 0 THEN "down" ELSE "flat"

\* C15 as stated: the growth percentage is (current - previous) / previous
\* * 100 when previous > 0, 100 when previous = 0 and current > 0, 0 when
\* both are 0, and the reported direction is up, down or flat according to
\* the sign of the reported percentage.
C15_GrowthAsStated ==
    probe.fn = "compare_revenue" =>
        /\ GrowthAsStated(probe.args[1], probe.args[2], probe.out.growth_percentage)
        /\ probe.out.growth_direction = SignName(probe.out.growth_percentage)

\* C15 amended: the reported growth percentage is (current - previous) /
\* previous * 100 rounded to two decimals when previous > 0, 100 when
\* previous = 0 and current > 0, 0 when both are 0; the direction is up,
\* down or flat according to the sign of the percentage before rounding,
\* that of current - previous when previous > 0 (0 and 0 give 0 and flat,
\* 0 and more than 0 give 100 and up).
C15_GrowthAmended ==
    probe.fn = "compare_revenue" =>
        /\ GrowthAsStated(probe.args[1], probe.args[2], probe.out.growth_percentage)
        /\ probe.out.growth_direction =
              IF probe.args[1] > 0 THEN SignName(probe.args[2] - probe.args[1])
              ELSE SignName(probe.args[2])
        /\ (probe.args = <<0, 0>> =>
              probe.out.growth_percentage = 0 /\ probe.out.growth_direction = "flat")
        /\ (probe.args[1] = 0 /\ probe.args[2] > 0 =>
              probe.out.growth_percentage = 10000 /\ probe.out.growth_direction = "up")

C15_Witness ==
    /\ probe.fn = "compare_revenue"
    /\ probe.args = <<20001, 20002>>
    /\ probe.out.growth_percentage = 0
    /\ probe.out.growth_direction = "up"

(***************************************************************************)
(* Properties of the churned-customer query                                *)
(***************************************************************************)
ChurnedIds == {probe.out[i].customer_id : i \in 1..Len(probe.out)}

\* the customer's entire order history is one order, placed more than n days ago
OneOldOrder(customer, n) ==
    Len(customer.orders) = 1 /\ customer.orders[1].age > n

\* the customer has exactly one order that is not cancelled, and that order,
\* its date readable, was placed more than n days ago
OneOldKeptOrder(customer, n) ==
    LET kept == {i \in 1..Len(customer.orders) : ~customer.orders[i].cancelled} IN
    /\ Cardinality(kept) = 1
    /\ \A i \in kept : customer.orders[i].readable /\ customer.orders[i].age > n

\* customer k is looked at: it is among the first 2 * limit rows and fewer
\* than limit results were collected before it
Examined(table, k, n, limit) ==
    /\ k <= 2 * limit
    /\ Cardinality({j \in 1..(k - 1) : OneOldKeptOrder(table[j], n)}) < limit

IsHexChar(c) == \E k \in 1..22 : c = Char("0123456789abcdefABCDEF", k)

\* the inputs normalize_uuid accepts: a dashed 36-character UUID string, a
\* 32-character undashed hex string, 16 bytes, a sequence of 16 byte values
AcceptedUuid(v) ==
    \/ /\ v.t = "str"
       /\ Len(v.s) = 36
       /\ \A i \in 1..36 : IF i \in {9, 14, 19, 24} THEN Char(v.s, i) = "-"
                             ELSE IsHexChar(Char(v.s, i))
    \/ /\ v.t = "str"
       /\ Len(v.s) = 32
       /\ \A i \in 1..32 : IsHexChar(Char(v.s, i))
    \/ v.t \in {"bytes", "list"} /\ Len(v.b) = 16

\* the lowercase hex text of a byte sequence, two digits per byte
HexNames == <<"0", "1", "2", "3", "4", "5", "6", "7", "8", "9", "a", "b", "c", "d", "e", "f">>

RECURSIVE HexText(_)
HexText(bs) ==
    IF bs = <<>> THEN ""
    ELSE HexNames[(Head(bs) \div 16) + 1] \o HexNames[(Head(bs) % 16) + 1] \o HexText(Tail(bs))

CanonicalText(s) ==
    /\ Len(s) = 36
    /\ \A i \in 1..36 :
          IF i \in {9, 14, 19, 24} THEN Char(s, i) = "-"
          ELSE \E k \in 1..16 : Char(s, i) = HexNames[k]

\* C19: for every accepted input (a dashed 36-character UUID string, a
\* 32-character undashed hex string, 16 raw bytes, a sequence of 16 byte
\* values) the normalization returns the canonical form: 36 characters,
\* dashes after 8, 12, 16 and 20 digits, lowercase hexadecimal digits.
C19_CanonicalForAccepted ==
    (probe.fn = "format_uuid" /\ AcceptedUuid(probe.args[1])) => CanonicalText(probe.out)

C21_IdempotentOnCanonical ==
    (probe.fn = "format_uuid" /\ probe.args[1].t = "str" /\ CanonicalText(probe.args[1].s))
        => probe.out = probe.args[1].s

C21_Witness ==
    /\ probe.fn = "format_uuid"
    /\ probe.args[1] = StrV("0a0b0c0d-0e0f-1011-1213-141516171819")
    /\ probe.out = "0a0b0c0d-0e0f-1011-1213-141516171819"

(***************************************************************************)
(* Properties of the text extraction                                       *)
(***************************************************************************)
IsDecimalDigit(c) == c \in {"0", "1", "2", "3", "4", "5", "6", "7", "8", "9"}

\* the text holds lead followed by at least 8 digits
HasRunAfter(text, lead) ==
    \E i \in 1..Len(text) :
        /\ i + Len(lead) + 7 <= Len(text)
        /\ SubSeq(text, i, i + Len(lead) - 1) = lead
        /\ \A k \in 0..7 : IsDecimalDigit(SubSeq(text, i + Len(lead) + k, i + Len(lead) + k))

\* C22 as stated: for every text without a substring made of "08" and a
\* digit run of the required length, extract_phone returns None.
C22_NoPatternNoPhone ==
    (probe.fn = "extract_phone" /\ ~HasRunAfter(probe.args[2], "08")) => probe.out = None

\* C22, amended: for every text without a substring made of "08" and at
\* least 8 digits, and without the 62-prefixed equivalent ("628" and at
\* least 8 digits), extract_phone returns None.
C22_NoPatternNoPhoneAmended ==
    (/\ probe.fn = "extract_phone"
     /\ ~HasRunAfter(probe.args[2], "08")
     /\ ~HasRunAfter(probe.args[2], "628")) => probe.out = None

C22_Witness ==
    /\ probe.fn = "extract_phone"
    /\ probe.args = <<"customer_service", "hp 081234567 ya">>
    /\ probe.out = None

\* positions of the text where a well-formed UUID starts
UuidStarts(text) ==
    {i \in 1..(Len(text) - 35) :
        \A k \in 1..36 :
            IF k \in {9, 14, 19, 24} THEN SubSeq(text, i + k - 1, i + k - 1) = "-"
            ELSE IsHexChar(SubSeq(text, i + k - 1, i + k - 1))}

\* C23: for every text holding exactly one well-formed UUID substring
\* (8-4-4-4-12 hex groups), extract_order_id returns that substring
\* unchanged, whatever 8-hex-character short ids the text holds.
C23_UuidPreferred ==
    (probe.fn = "extract_order_id" /\ Cardinality(UuidStarts(probe.args[2])) = 1)
        => \E i \in UuidStarts(probe.args[2]) :
               probe.out = SubSeq(probe.args[2], i, i + 35)

C23_Witness ==
    /\ probe.fn = "extract_order_id"
    /\ probe.args[2] = "#deadbeef 01234567-89AB-CDEF-1032-547698BADCFE #0BADF00D"
    /\ probe.out = "01234567-89AB-CDEF-1032-547698BADCFE"

(***************************************************************************)
(* Properties of the WhatsApp agent                                        *)
(***************************************************************************)
IsBlank(text) == \A i \in 1..Len(text) : SubSeq(text, i, i) \in {" ", "\t", "\n"}

\* C27: WhatsApp message processing called with an empty message returns
\* success=false, without any external call.
C27_EmptyWhatsAppMessage ==
    (probe.fn = "process_message" /\ IsBlank(probe.args[1]))
        => (~probe.out.raised /\ probe.out.success = FALSE /\ probe.out.calls = <<>>)

\* C28: for every valid notification type (created, ready, completed,
\* payment_reminder) send_order_notification returns, without raising, a
\* result whose notification_type is the requested type and whose order_id
\* is the given order id.
C28_NotificationEchoesRequest ==
    (/\ probe.fn = "send_order_notification"
     /\ probe.args[2] \in {"created", "ready", "completed", "payment_reminder"})
        => /\ ~probe.out.raised
           /\ {"notification_type", "order_id"} \subseteq probe.out.keys
           /\ probe.out.notification_type = probe.args[2]
           /\ probe.out.order_id = probe.args[1]

(***************************************************************************)
(* Properties of the comparison windows                                    *)
(***************************************************************************)
\* C30: in a this-period versus last-period comparison (this_week and
\* last_week, this_month and last_month) the two date windows have equal
\* length and no order is counted in both windows.
C30_WindowsEqualAndDisjoint ==
    probe.fn = "compare_revenue_windows" =>
        /\ probe.out.window1[2] - probe.out.window1[1] = probe.out.window2[2] - probe.out.window2[1]
        /\ ~(probe.out.counted1 /\ probe.out.counted2)

(***************************************************************************)
(* Properties of the HTTP routes                                           *)
(***************************************************************************)
RouteAnswered == probe.fn = "api_route"
RouteFieldMissing ==
    probe.args[1] \in {"chat", "analytics", "whatsapp_webhook", "search_customers"} /\ ~probe.args[2]
RouteException == probe.args[3] \in {"raises", "timeout"}
RouteNon2xx == probe.out.status \notin 200..299

\* a business-logic failure: the agent reports success=false, or a lookup
\* by id or by phone finds nothing
RouteBusinessFailure ==
    /\ ~RouteFieldMissing
    /\ \/ probe.args[3] = "failure"
       \/ probe.args[3] = "nothing" /\ probe.args[1] \in {"order_details", "customer_points"}

\* C24 as stated: an endpoint answers with a non-2xx status only when a
\* required request field is missing or an exception reaches the route, and
\* every business-logic failure is answered with status 200 and success=false.
C24_StatusAsStated ==
    RouteAnswered =>
        /\ RouteNon2xx => (RouteFieldMissing \/ RouteException)
        /\ RouteBusinessFailure => (probe.out.status = 200 /\ probe.out.success = FALSE)

\* C24, amended: an endpoint answers with a non-2xx status only when a
\* required request field is missing, an exception reaches the route, or the
\* lookup of GET /orders/<order_id> or GET /customers/<phone>/points finds
\* nothing (status 404 with success=false); every failure an agent handler
\* reports is answered with status 200 and success=false.
C24_StatusAmended ==
    RouteAnswered =>
        /\ RouteNon2xx =>
              \/ RouteFieldMissing
              \/ RouteException
              \/ /\ probe.args[1] \in {"order_details", "customer_points"}
                 /\ probe.args[3] = "nothing"
                 /\ probe.out = [status |-> 404, success |-> FALSE]
        /\ (~RouteFieldMissing /\ probe.args[3] = "failure")
              => (probe.out.status = 200 /\ probe.out.success = FALSE)

C24_Witness ==
    /\ RouteAnswered
    /\ probe.args = <<"analytics", TRUE, "failure">>
    /\ probe.out = [status |-> 200, success |-> FALSE]

(***************************************************************************)
(* Properties of the store resolver                                        *)
(***************************************************************************)
\* the dashed form of an undashed 32-character id; any other text unchanged
NormalForm(id) ==
    IF Len(id) = 32
    THEN SubSeq(id, 1, 8) \o "-" \o SubSeq(id, 9, 12) \o "-" \o SubSeq(id, 13, 16)
           \o "-" \o SubSeq(id, 17, 20) \o "-" \o SubSeq(id, 21, 32)
    ELSE id

\* the canonical form: 36 characters, dashes at 9, 14, 19 and 24, lowercase
\* hexadecimal digits elsewhere
IsCanonicalUuid(v) ==
    /\ v.t = "str"
    /\ Len(v.s) = 36
    /\ \A i \in 1..36 :
          IF i \in {9, 14, 19, 24} THEN Char(v.s, i) = "-"
          ELSE \E k \in 1..16 : Char(v.s, i) = Char(HexDigits, k)

CacheScores == [i \in 1..Len(store_cache) |-> ScoreRule(store_cache[i].key, Lower(last.query), 2)]

IsHighest(i) == \A j \in 1..Len(store_cache) : CacheScores[j] <= CacheScores[i]

\* C8: with no explicit id, resolve_store_id returns the (normalized) id of
\* a highest-scoring cached store exactly when that score is at least 2;
\* otherwise it returns the (normalized) instance default store id, the
\* empty string when there is no default.
C8_ResolveByScore ==
    (last.op = "resolve_store_id" /\ last.sid = "") =>
        IF \E i \in 1..Len(store_cache) : CacheScores[i] >= 2
        THEN \E i \in 1..Len(store_cache) :
                /\ IsHighest(i)
                /\ last.value = format_uuid(store_cache[i].store.id)
        ELSE last.value = NormalForm(store_id)

C8_Witness ==
    /\ last.op = "resolve_store_id"
    /\ last.sid = ""
    /\ last.query = "laporan toko sudirman"
    /\ store_id # ""
    /\ last.value = U1

\* the words of a cached store's name that occur in the query
SharedWords(i) ==
    LET words == Split(store_cache[i].key)
    IN  {words[k] : k \in {j \in 1..Len(words) : Contains(Lower(last.query), words[j])}}

\* C29: a store whose name shares only stop-set words (laundry, toko, ruang,
\* outlet, cabang, store) with the query is never the store selected by
\* fuzzy matching: if resolve_store_id returns its id, that id is the
\* instance default store id.
C29_NoStopWordMatch ==
    (last.op = "resolve_store_id" /\ last.sid = "") =>
        \A i \in 1..Len(store_cache) :
            (SharedWords(i) \subseteq StopSet /\ last.value = format_uuid(store_cache[i].store.id))
                => last.value = NormalForm(store_id)

\* C9: a non-empty explicit id is returned normalized, regardless of the
\* query text, the cache contents and the instance default store id.
C9_ExplicitWins ==
    (last.op = "resolve_store_id" /\ last.sid # "") => last.value = NormalForm(last.sid)

C9_Witness ==
    /\ last.op = "resolve_store_id"
    /\ last.sid = "112233445566778899aabbccddeeff00"
    /\ last.query = "laporan toko sudirman"
    /\ store_id # ""
    /\ Len(store_cache) > 0
    /\ last.value = "11223344-5566-7788-99aa-bbccddeeff00"

\* C7: in every reachable state every entry of the store-name cache holds a
\* store whose id is a normalized (canonical) UUID string.
C7_CacheIdsNormalized ==
    \A i \in 1..Len(store_cache) : IsCanonicalUuid(store_cache[i].store.id)

(***************************************************************************)
(* Properties of the handlers                                              *)
(***************************************************************************)
StoreScopedHandlers ==
    {"get_daily_report", "get_weekly_report", "get_monthly_report", "compare_periods",
     "get_top_services", "get_peak_hours", "get_points_summary"}

RequestOps ==
    StoreScopedHandlers \cup
        {"process_query", "get_churned_customers", "get_inactive_customers",
         "get_customer_points", "list_stores", "get_store_by_name"}

\* C1: a store-scoped handler (daily, weekly, monthly, comparison, popular
\* services, peak hours, points summary) invoked with no store id on an
\* agent with no default store id makes no data-store query with an empty
\* store filter, and what it returns is success=true with the request to
\* name a store and at most five cached store names.
C1_AsksForStore ==
    (last.op \in StoreScopedHandlers /\ last.sid \in {None, ""} /\ store_id = "") =>
        /\ \A k \in 1..Len(last.calls) : last.calls[k].store_id # ""
        /\ ~last.result.raised =>
              /\ last.result.success
              /\ StartsWith(last.result.response, "Mohon sebutkan nama toko")
              /\ Len(last.result.listed) <= 5
              /\ \A k \in 1..Len(last.result.listed) :
                    last.result.listed[k] \in CacheKeys(store_cache)

FailedCalls == {k \in 1..Len(last.calls) : ~last.calls[k].ok}

\* the request ended with a failure: an exception or success=false
EndedInFailure == last.result.raised \/ ~last.result.success

\* C26 as stated: within one request a failed external call (tool
\* invocation, LLM completion) ends the request with a failure response and
\* is never issued again.
C26_NoRetryAsStated ==
    last.op \in RequestOps =>
        \A k \in FailedCalls :
            /\ EndedInFailure
            /\ \A j \in (k + 1)..Len(last.calls) : last.calls[j].tool # last.calls[k].tool

\* the call is the store listing of the list_stores handler itself
HandlerStoreListing(k) ==
    /\ k = Len(last.calls)
    /\ last.calls[k].tool = "list-stores"
    /\ last.op = "list_stores" \/ last.intent = "store_list"

\* the failed call is one whose failure the code swallows: the store-list
\* fetch that fills the store-name cache, the LLM completion that
\* classifies the intent
Swallowed(k) ==
    \/ last.calls[k].tool = "llm-classify"
    \/ last.calls[k].tool = "list-stores" /\ ~HandlerStoreListing(k)

\* C26, amended: within one request a failed call of the handler (its tool
\* invocation against the data store, or the LLM completion that writes the
\* answer) ends the request with a failure response and no call is issued
\* after it; only the store-list fetch that fills the store-name cache and
\* the LLM completion that classifies the intent are exempt: their failure
\* is swallowed and the request goes on.
C26_NoRetryAmended ==
    last.op \in RequestOps =>
        \A k \in FailedCalls :
            (last.calls[k].tool # "load-toolset" /\ ~Swallowed(k)) =>
                /\ ~last.result.raised
                /\ ~last.result.success
                /\ k = Len(last.calls)

C26_Witness ==
    /\ last.op = "process_query"
    /\ Len(last.calls) >= 3
    /\ last.calls[2].tool = "list-stores" /\ ~last.calls[2].ok
    /\ last.calls[Len(last.calls)].tool = "get-weekly-revenue"
    /\ ~last.calls[Len(last.calls)].ok
    /\ ~last.result.raised /\ ~last.result.success

\* the store-list fetches a request made, and those that failed
StoreListFetches == {k \in 1..Len(last.calls) : last.calls[k].tool = "list-stores"}

FailedStoreListFetches == {k \in StoreListFetches : ~last.calls[k].ok}

\* C11: once the cache is non-empty a call of load_store_cache performs no
\* store-list fetch and leaves the cache unchanged; only clear_store_cache
\* makes the next load fetch again.
C11_LoadIdempotent ==
    [][(last.op = "none" /\ store_cache # <<>> /\ last'.op = "load_store_cache")
          => (store_cache' = store_cache /\ last'.calls = <<>>)]_vars

C11_Witness ==
    /\ last.op = "load_store_cache"
    /\ store_cache # <<>>
    /\ last.calls = <<>>

\* C12: when the store-list fetch of load_store_cache fails, nothing is
\* raised to the caller and the cache is empty afterwards; the same holds
\* where the resolver and the lookup by name load the cache.
C12_LoadFailureContained ==
    (last.op \in {"load_store_cache", "resolve_store_id", "get_store_by_name"}
        /\ FailedStoreListFetches # {})
        => (~last.result.raised /\ store_cache = <<>>)

C12_Witness ==
    /\ last.op = "load_store_cache"
    /\ Len(db_stores) > 0
    /\ FailedStoreListFetches # {}
    /\ store_cache = <<>>

C14_EmptyMessage ==
    [][(last.op = "none" /\ last'.op = "process_query" /\ Strip(last'.query) = "")
          => /\ ~last'.result.raised
             /\ ~last'.result.success
             /\ last'.result.response = "Mohon berikan pertanyaan."
             /\ last'.calls = <<>>
             /\ UNCHANGED <<store_cache, tools_loaded>>]_vars

C14_Witness ==
    /\ last.op = "process_query"
    /\ last.query = " \t\n"
    /\ ~tools_loaded
    /\ ~last.result.success
    /\ last.calls = <<>>

\* the phone number a points request is about
RequestPhone ==
    IF last.op = "get_customer_points" THEN last.query ELSE search_phone(Lower(last.query))

\* the points query was sent and answered
PointsAnswered ==
    \E k \in 1..Len(last.calls) : last.calls[k].tool = "get-customer-points" /\ last.calls[k].ok

\* C17: for a points-check message whose phone number is found in the data
\* store, the response shows the available points and, when lifetime_points
\* exceeds points, a redeemed amount of lifetime_points minus points; for
\* "cek poin 081234567890" with points=150 and lifetime_points=500 the
\* response contains "150" and a redeemed amount of 350.
C17_PointsShown ==
    (last.op \in {"process_query", "get_customer_points"} /\ PointsAnswered) =>
        /\ (RequestPhone = "081234567890" =>
               /\ last.result.success
               /\ Contains(last.result.response, "150")
               /\ Contains(last.result.response, "Poin tersedia: *150 poin*")
               /\ Contains(last.result.response, "Poin sudah ditukar: 350 poin"))
        /\ (RequestPhone = "085700001111" =>
               /\ last.result.success
               /\ Contains(last.result.response, "Poin tersedia: *0 poin*")
               /\ Contains(last.result.response, "Poin sudah ditukar: 2,000 poin"))
        /\ (RequestPhone = "081298765432" =>
               /\ last.result.success
               /\ Contains(last.result.response, "Poin tersedia: *1,500 poin*"))
        /\ (RequestPhone = "089912345678" =>
               /\ last.result.success
               /\ Contains(last.result.response, "Poin tersedia: *20 poin*"))

C17_Witness ==
    /\ last.op = "process_query"
    /\ last.query = "cek poin 081234567890"
    /\ last.intent = "points_check"
    /\ PointsAnswered
    /\ Contains(last.result.response, "Poin sudah ditukar: 350 poin")

\* every external call of the request succeeded and was answered with rows
AllCallsAnswered == \A k \in 1..Len(last.calls) : last.calls[k].ok /\ ~last.calls[k].empty

\* the cached stores whose name holds "sudirman"
SudirmanEntries == {i \in 1..Len(store_cache) : Contains(store_cache[i].key, "sudirman")}

\* C18: for the message "pendapatan minggu ini toko Sudirman" with no
\* explicit store id and a cached store named "Laundry Sudirman" (the only
\* cached store of that name, the data store answering every query), the
\* request resolves that store's id by fuzzy match, is classified
\* weekly_revenue, and returns success=true with a response that contains
\* the store's name and a currency-formatted total.
C18_WeeklyScenario ==
    (/\ last.op = "process_query"
     /\ last.query = "pendapatan minggu ini toko Sudirman"
     /\ last.sid = None
     /\ AllCallsAnswered
     /\ SudirmanEntries # {}
     /\ \A i \in SudirmanEntries : store_cache[i].key = "laundry sudirman")
        => /\ last.intent = "weekly_revenue"
           /\ last.value = "01234567-89ab-cdef-1032-547698badcfe"
           /\ \E k \in 1..Len(last.calls) :
                 /\ last.calls[k].tool = "get-weekly-revenue"
                 /\ last.calls[k].store_id = "01234567-89ab-cdef-1032-547698badcfe"
           /\ last.result.success
           /\ Contains(last.result.response, "Laundry Sudirman")
           /\ Contains(last.result.response, "Total: Rp 1,250,000")

\* C6: no exception raised by an external data-store call made while
\* serving a request (tool loading included) escapes from a handler or from
\* process_query; the caller gets a returned object.
C6_NoExceptionEscapes ==
    last.op \in RequestOps => ~last.result.raised

====
